---- MODULE Spec2Model ----
(***************************************************************************)
(* A model of hapi-pg-rest-api: the request processor, the validators, the *)
(* SQL query builder, the repository, the error mapper and the handlers    *)
(* that bind them to the REST endpoints of one table.                      *)
(*                                                                         *)
(* Two generations of the handlers live in the sources and both are        *)
(* modelled:                                                               *)
(*   - the class API: HAPIRestAPI + Request.processRequest (Api actions)   *)
(*   - the controller API: controller + getRequestData + validators        *)
(*     (Ctl actions)                                                       *)
(***************************************************************************)
EXTENDS Integers, Sequences, FiniteSets, TLC

VARIABLES table, last, err, proc, qb

vars == <<table, last, err, proc, qb>>

(***************************************************************************)
(* JSON values.  Every scalar is a record of one shape so that values of   *)
(* different JavaScript types can be compared.                             *)
(*   k = "str"   a string, in s                                            *)
(*   k = "num"   a number: n when half = 0, n + 0.5 when half = 1          *)
(*   k = "null"  null                                                      *)
(*   k = "undef" undefined / key absent                                    *)
(***************************************************************************)
Str(s) == [k |-> "str", s |-> s, n |-> 0, half |-> 0]
Num(n) == [k |-> "num", s |-> "", n |-> n, half |-> 0]
Frac(n) == [k |-> "num", s |-> "", n |-> n, half |-> 1]
Null == [k |-> "null", s |-> "", n |-> 0, half |-> 0]
Undef == [k |-> "undef", s |-> "", n |-> 0, half |-> 0]

\* JavaScript truthiness of a scalar: value ? a : b, value || b
Truthy(v) ==
  CASE v.k = "str" -> v.s # ""
    [] v.k = "num" -> ~(v.n = 0 /\ v.half = 0)
    [] OTHER -> FALSE

(***************************************************************************)
(* Errors (errors.js).  The four classes set name and message only; an     *)
(* error raised by the database driver carries a code.                     *)
(***************************************************************************)
MkError(name, message, code) == [name |-> name, message |-> message, code |-> code]
ConfigError(message) == MkError("ConfigError", message, Undef)
ValidationError(message) == MkError("ValidationError", message, Undef)
NotFoundError(message) == MkError("NotFoundError", message, Undef)
NotImplementedError(message) == MkError("NotImplementedError", message, Undef)
\* what JSON.parse throws on malformed text
SyntaxError == MkError("SyntaxError", "Unexpected token", Undef)
\* what calling an undefined method throws
TypeError(message) == MkError("TypeError", message, Undef)
NoError == MkError("", "", Undef)

PG_UNIQUE_VIOLATION == 23505
PG_NOT_NULL_VIOLATION == 23502

(***************************************************************************)
(* helpers.js: the error mapper                                            *)
(***************************************************************************)
\* (code || '').toString()
getStringCode(code) ==
  IF ~Truthy(code) THEN ""
  ELSE IF code.k = "num"
       THEN IF code.half = 1 THEN ToString(code.n) \o ".5" ELSE ToString(code.n)
       ELSE code.s

isCodeEqual(a, b) == getStringCode(a) = getStringCode(b)

isBadRequest_onlyUnique(code) == isCodeEqual(code, Num(PG_UNIQUE_VIOLATION))

isBadRequest(code) ==
  isCodeEqual(code, Num(PG_UNIQUE_VIOLATION)) \/ isCodeEqual(code, Num(PG_NOT_NULL_VIOLATION))

\* the data of a reply body: null, one row, or an array of rows
DataNull == [kind |-> "null", rows |-> <<>>]
DataRow(row) == [kind |-> "row", rows |-> <<row>>]
DataRows(rows) == [kind |-> "rows", rows |-> rows]

\* the pagination of a reply body: {...pagination, totalRows, pageCount}
PaginationInfo(pagination, totalRows, pageCount) ==
  [given |-> TRUE, page |-> pagination.page, perPage |-> pagination.perPage,
   totalRows |-> totalRows, pageCount |-> pageCount]
NoPaginationInfo ==
  [given |-> FALSE, page |-> Undef, perPage |-> Undef, totalRows |-> 0, pageCount |-> 0]

\* a reply: status code and the body {error, data, rowCount, pagination}.
\* errorKeys are the keys of body.error (none when error is null), rowCount
\* is -1 when the body has none; escaped = no reply was built, exception is
\* what left the handler.
Response(status, data, rowCount, pagination) ==
  [escaped |-> FALSE, exception |-> NoError, status |-> status,
   error |-> NoError, errorKeys |-> {}, data |-> data, rowCount |-> rowCount,
   pagination |-> pagination]

Reply(status, error, errorKeys) ==
  [escaped |-> FALSE, exception |-> NoError, status |-> status,
   error |-> error, errorKeys |-> errorKeys, data |-> DataNull, rowCount |-> -1,
   pagination |-> NoPaginationInfo]

Escaped(exception) ==
  [escaped |-> TRUE, exception |-> exception, status |-> 0,
   error |-> NoError, errorKeys |-> {}, data |-> DataNull, rowCount |-> -1,
   pagination |-> NoPaginationInfo]

\* errorObj.toString() of an Error: "<name>: <message>"
ErrorToString(e) == IF e.message = "" THEN e.name ELSE e.name \o ": " \o e.message

formatError(code, errorObj) ==
  Reply(code, MkError(errorObj.name, ErrorToString(errorObj), Undef), {"name", "message"})

\* a mapper that copies the raised error's message into the body
errorReply_withMessage(error) ==
  IF error.name = "ValidationError" THEN formatError(400, error)
  ELSE IF error.name = "NotFoundError" THEN formatError(404, error)
  ELSE IF error.name = "NotImplementedError" THEN formatError(501, error)
  ELSE Reply(IF isBadRequest(error.code) THEN 400 ELSE 500,
             MkError("DBError", error.message, error.code), {"name", "code", "message"})

errorReply(error) ==
  IF error.name = "ValidationError" THEN formatError(400, error)
  ELSE IF error.name = "NotFoundError" THEN formatError(404, error)
  ELSE IF error.name = "NotImplementedError" THEN formatError(501, error)
  ELSE Reply(IF isBadRequest(error.code) THEN 400 ELSE 500,
             MkError("DBError", "", error.code), {"name", "code"})

(***************************************************************************)
(* Inputs of the error mapper                                              *)
(***************************************************************************)
Messages == {"", "m1", "duplicate key value violates unique constraint"}

ErrorCodes ==
  {Undef, Null, Num(0), Num(123), Num(PG_UNIQUE_VIOLATION), Num(PG_NOT_NULL_VIOLATION),
   Num(23503), Frac(PG_UNIQUE_VIOLATION), Str(""), Str("23505"), Str("23502"),
   Str("2200G"), Str("42703"), Str("23505 ")}

RaisedErrors ==
  { MkError(n, m, Undef) :
      n \in {"ValidationError", "NotFoundError", "NotImplementedError", "ConfigError"},
      m \in Messages }
  \cup { MkError(n, m, c) : n \in {"error", "Error"}, m \in Messages, c \in ErrorCodes }

NoReply == Escaped(NoError)

InitErr ==
  /\ table = <<>>
  /\ last = "none"
  /\ proc = "none"
  /\ qb = "none"
  /\ err \in [error : RaisedErrors, reply : {NoReply}, done : {FALSE}]

MapError ==
  /\ ~err.done
  /\ err' = [err EXCEPT !.reply = errorReply(err.error), !.done = TRUE]
  /\ UNCHANGED <<table, last, proc, qb>>

NextErr == MapError

SpecErr == InitErr /\ [][NextErr]_vars

\* C3: errorReply chooses the status from the error alone: ValidationError
\* 400, NotFoundError 404, NotImplementedError 501, ConfigError 500, and any
\* other error is a database error: 400 when its code is 23505 or 23502 as
\* a number or a string, 500 for every other code and for a missing code.
IsConflictCode(c) ==
  c \in {Num(PG_UNIQUE_VIOLATION), Num(PG_NOT_NULL_VIOLATION), Str("23505"), Str("23502")}

NaN == [k |-> "nan", s |-> "", n |-> 0, half |-> 0]

\* parseInt(error.code, 10): the leading digits of the text of the code
parseIntCode(code) ==
  CASE code.k = "num" -> Num(code.n)
    [] code.k = "str" /\ code.s \in {"23505", "23505 "} -> Num(23505)
    [] code.k = "str" /\ code.s = "23502" -> Num(23502)
    [] code.k = "str" /\ code.s = "42703" -> Num(42703)
    [] code.k = "str" /\ code.s = "2200G" -> Num(2200)
    [] OTHER -> NaN

\* JSON of an Error object: its enumerable own properties, that is name
HAPIRestAPI_errorReply(error) ==
  IF error.name = "ValidationError" THEN Reply(400, MkError(error.name, "", Undef), {"name"})
  ELSE IF error.name = "ConfigError" THEN Reply(500, MkError(error.name, "", Undef), {"name"})
  ELSE IF error.name = "NotFoundError" THEN Reply(404, MkError(error.name, "", Undef), {"name"})
  ELSE Reply(IF parseIntCode(error.code) \in {Num(23505), Num(23502)} THEN 400 ELSE 500,
             MkError("DBError", "", parseIntCode(error.code)), {"name", "code"})

InitPair ==
  /\ table = <<>>
  /\ last = "none"
  /\ proc = "none"
  /\ qb = "none"
  /\ err \in [first : RaisedErrors, second : RaisedErrors, mapper : {"none"},
              replyFirst : {NoReply}, replySecond : {NoReply}]

\* helpers.js errorReply applied to both errors
MapPair ==
  /\ err.mapper = "none"
  /\ err' = [err EXCEPT !.mapper = "helpers",
                        !.replyFirst = errorReply(err.first),
                        !.replySecond = errorReply(err.second)]
  /\ UNCHANGED <<table, last, proc, qb>>

\* HAPIRestAPI.errorReply applied to both errors
MapPairStatic ==
  /\ err.mapper = "none"
  /\ err' = [err EXCEPT !.mapper = "static",
                        !.replyFirst = HAPIRestAPI_errorReply(err.first),
                        !.replySecond = HAPIRestAPI_errorReply(err.second)]
  /\ UNCHANGED <<table, last, proc, qb>>

NextPair == MapPair \/ MapPairStatic

SpecPair == InitPair /\ [][NextPair]_vars

\* an error raised by the database driver, not one of the API's own classes
IsPersistenceError(e) == e.name \in {"error", "Error"}

\* C21: two persistence-layer errors with the same code get the same status
\* and the same body from errorReply, and the error object of that body has
\* exactly the keys name ('DBError') and code, whatever message the raised
\* errors hold.
C21_SameCodeSameReply ==
  (/\ err.mapper # "none"
   /\ IsPersistenceError(err.first)
   /\ IsPersistenceError(err.second)
   /\ err.first.code = err.second.code)
    => /\ err.replyFirst = err.replySecond
       /\ ~err.replyFirst.escaped
       /\ err.replyFirst.errorKeys = {"name", "code"}
       /\ err.replyFirst.error.name = "DBError"
       /\ err.replyFirst.error.message = ""
       /\ err.replyFirst.data = DataNull

C21_Witness ==
  /\ err.mapper = "helpers"
  /\ IsPersistenceError(err.first)
  /\ IsPersistenceError(err.second)
  /\ err.first.code = Str("23505")
  /\ err.second.code = Str("23505")
  /\ err.first.message # err.second.message
  /\ err.first.name # err.second.name
  /\ err.replyFirst.status = 400
  /\ err.replyFirst = err.replySecond

(***************************************************************************)
(* JavaScript objects: an object is the sequence of its entries            *)
(* [key, val] in insertion order, keys unique.                             *)
(***************************************************************************)
Entry(key, val) == [key |-> key, val |-> val]
Keys(o) == [i \in 1..Len(o) |-> o[i].key]
KeySet(o) == {o[i].key : i \in 1..Len(o)}
Has(o, key) == key \in KeySet(o)
Get(o, key) == LET i == CHOOSE j \in 1..Len(o) : o[j].key = key IN o[i].val
\* o[key] = val: an existing key keeps its place, a new key goes last
Put(o, key, val) ==
  IF Has(o, key)
  THEN [i \in 1..Len(o) |-> IF o[i].key = key THEN Entry(key, val) ELSE o[i]]
  ELSE Append(o, Entry(key, val))
\* Object.assign(target, source)
RECURSIVE Assign(_, _)
Assign(target, source) ==
  IF source = <<>> THEN target
  ELSE Assign(Put(target, Head(source).key, Head(source).val), Tail(source))
SeqToSet(q) == {q[i] : i \in 1..Len(q)}
\* lodash omit(o, key)
Omit(o, key) == SelectSeq(o, LAMBDA e : e.key # key)
\* the `in` operator on a plain object also finds what Object.prototype gives
ObjectPrototypeKeys == {"constructor", "toString", "hasOwnProperty", "valueOf"}
In(key, o) == Has(o, key) \/ key \in ObjectPrototypeKeys

\* filter values: a scalar (null included), an array of scalars, an operator
\* object such as {$gt: 'a', $like: 'b%'} (ops its entries, each leaf a
\* scalar), or an array of one-key filter objects such as the operand of $or
\* (ops the entries of the objects)
Scalar(v) == [t |-> "scalar", v |-> v, items |-> <<>>, ops |-> <<>>]
Array(items) == [t |-> "array", v |-> Undef, items |-> items, ops |-> <<>>]
OperatorObject(ops) == [t |-> "object", v |-> Undef, items |-> <<>>, ops |-> ops]
ObjectArray(ops) == [t |-> "objects", v |-> Undef, items |-> <<>>, ops |-> ops]

\* pagination values: an object {page, perPage} (extra = it has another key
\* too), or some other JSON value v
PObj(page, perPage, extra) ==
  [t |-> "obj", page |-> page, perPage |-> perPage, extra |-> extra, v |-> Undef]
PScalar(v) == [t |-> "scalar", page |-> Undef, perPage |-> Undef, extra |-> FALSE, v |-> v]
NoPagination == PScalar(Null)

\* a query-string parameter: absent, the empty string, text that is not
\* JSON, or the JSON text of value json
Absent(z) == [text |-> "absent", json |-> z]
EmptyText(z) == [text |-> "empty", json |-> z]
Malformed(z) == [text |-> "malformed", json |-> z]
Json(v) == [text |-> "json", json |-> v]
\* JSON.parse: throws SyntaxError unless the text is JSON
JSONparseThrows(q) == q.text # "json"
JSONparse(q) == q.json
\* 'x' in request.query
InQuery(q) == q.text # "absent"
\* a query string is truthy unless absent or empty
TruthyText(q) == q.text \notin {"absent", "empty"}

(***************************************************************************)
(* Entity configuration (sessions-api.js with the constructor's defaults)  *)
(***************************************************************************)
DEFAULT_PER_PAGE == 100

Guids == {"g1", "g2", "g3", "g4"}

SessionsValidation ==
  << Entry("session_id", "guid"), Entry("ip", "string"),
     Entry("date_created", "string"), Entry("date_updated", "stringAllowNull"),
     Entry("email", "emailLowercaseTrim") >>

Config ==
  [ primaryKey |-> "session_id",
    primaryKeyAuto |-> FALSE,
    primaryKeyGuid |-> TRUE,
    onCreateTimestamp |-> "date_created",
    onUpdateTimestamp |-> "date_updated",
    validation |-> SessionsValidation,
    pagination |-> PObj(Num(1), Num(DEFAULT_PER_PAGE), FALSE) ]

(***************************************************************************)
(* Joi rules                                                               *)
(***************************************************************************)
\* String.prototype.trim and toLowerCase on the strings that requests carry
trim(s) ==
  CASE s = "  BOB@EXAMPLE.COM   " -> "BOB@EXAMPLE.COM"
    [] s = " b " -> "b"
    [] OTHER -> s

toLowerCase(s) ==
  CASE s = "BOB@EXAMPLE.COM" -> "bob@example.com"
    [] s = "  BOB@EXAMPLE.COM   " -> "  bob@example.com   "
    [] s = "$ILIKE" -> "$ilike"
    [] s = "$LIKE" -> "$like"
    [] OTHER -> s

\* the strings that are e-mail addresses
Emails == {"bob@example.com", "BOB@EXAMPLE.COM"}

\* the value Joi's conversion gives before the rule is tested:
\* .lowercase().trim() trim and lower-case a string, the other rules keep it
JoiConvert(rule, v) ==
  IF rule = "emailLowercaseTrim" /\ v.k = "str"
  THEN [v EXCEPT !.s = toLowerCase(trim(v.s))]
  ELSE v

\* Joi.string(), Joi.string().guid(), Joi.string().allow(null),
\* Joi.string().email().lowercase().trim() on a scalar
JoiValid(rule, v) ==
  CASE rule = "string" -> v.k = "str" /\ v.s # ""
    [] rule = "guid" -> v.k = "str" /\ v.s \in Guids
    [] rule = "stringAllowNull" -> v.k = "null" \/ (v.k = "str" /\ v.s # "")
    [] rule = "emailLowercaseTrim" -> v.k = "str" /\ JoiConvert(rule, v).s \in Emails
    [] OTHER -> FALSE

\* [rule, Joi.array().items(rule)]
JoiValidOrArray(rule, fv) ==
  IF fv.t = "array"
  THEN \A i \in 1..Len(fv.items) : JoiValid(rule, fv.items[i])
  ELSE IF fv.t = "objects" THEN fv.ops = <<>>
  ELSE JoiValid(rule, fv.v)

\* strings that Joi.number() converts to a number
NumericStrings == {"0", "2"}
NumericValue(s) == IF s = "2" THEN 2 ELSE 0

\* Joi.number().min(1), the key being optional
JoiNumberMin1(v) ==
  \/ v.k = "undef"
  \/ v.k = "num" /\ v.n >= 1
  \/ v.k = "str" /\ v.s \in NumericStrings /\ NumericValue(v.s) >= 1

JoiError(key) == ValidationError("child \"" \o key \o "\" fails")

\* the first entry that fails its test, or 0; passed[i] tells whether entry i
\* passes
FirstFailing(passed) ==
  IF \E i \in 1..Len(passed) : ~passed[i]
  THEN CHOOSE i \in 1..Len(passed) : ~passed[i] /\ \A j \in 1..(i - 1) : passed[j]
  ELSE 0

(***************************************************************************)
(* request.js: class Request                                               *)
(***************************************************************************)
\* key.match(/^\$i?like$/i)
matchLike(key) == toLowerCase(key) \in {"$like", "$ilike"}

\* a walk that collects no leaf at all
WalkValues_skipAll(ops) == <<>>

\* objectWalk of an operator object: the leaves whose typeof is not 'object'
\* (null is an 'object') and whose key is not $like or $ilike, in order
WalkValues(ops) ==
  LET kept == SelectSeq(ops, LAMBDA e : e.val.k # "null" /\ ~matchLike(e.key))
  IN [i \in 1..Len(kept) |-> kept[i].val]

\* a normalisation that collects every leaf of an operator object
getFilterValues_everyLeaf(filter) ==
  [i \in 1..Len(filter) |->
     IF filter[i].val.t = "object"
     THEN Entry(filter[i].key,
                Array([j \in 1..Len(filter[i].val.ops) |-> filter[i].val.ops[j].val]))
     ELSE filter[i]]

\* getFilterValues: scalars, null and arrays pass through unchanged, an
\* operator object becomes the array of its collected leaves
getFilterValues(filter) ==
  [i \in 1..Len(filter) |->
     IF filter[i].val.t = "object"
     THEN Entry(filter[i].key, Array(WalkValues(filter[i].val.ops)))
     ELSE filter[i]]

\* the filter check of validate: allowUnknown, so only configured keys count
FilterEntryOk(config, e) ==
  Has(config.validation, e.key) => JoiValidOrArray(Get(config.validation, e.key), e.val)

\* the data check of validate: every key configured and valid
DataSchema(config) ==
  IF ~config.primaryKeyAuto /\ ~config.primaryKeyGuid
  THEN config.validation
  ELSE Omit(config.validation, config.primaryKey)

DataEntryOk(schema, e) == Has(schema, e.key) /\ JoiValid(Get(schema, e.key), e.val)

PaginationOk(p) ==
  /\ p.t = "obj"
  /\ ~p.extra
  /\ JoiNumberMin1(p.page)
  /\ JoiNumberMin1(p.perPage)

\* if (result.pagination): null, 0, "" and false skip the check
TruthyPagination(p) == p.t = "obj" \/ Truthy(p.v)

PAGINATION_MESSAGE == "Pagination must contain keys 'page' and 'perPage' with integer values"

SortMessage(sortKey) == "Sort field '" \o sortKey \o "' not defined in validation config"

validate(config, result) ==
  LET schema == DataSchema(config)
      Checked(filterValues, f, d, s) ==
        IF f # 0 THEN JoiError(filterValues[f].key)
        ELSE IF d # 0 THEN JoiError(result.data[d].key)
        ELSE IF s # 0 THEN ValidationError(SortMessage(result.sort[s].key))
        ELSE IF TruthyPagination(result.pagination) /\ ~PaginationOk(result.pagination)
             THEN ValidationError(PAGINATION_MESSAGE)
        ELSE IF result.columns.given
                /\ \E i \in 1..Len(result.columns.list) :
                     ~Has(config.validation, result.columns.list[i])
             THEN ValidationError("Invalid column specification")
        ELSE NoError
      WithValues(filterValues) ==
        Checked(filterValues,
                FirstFailing([k \in 1..Len(filterValues) |->
                                FilterEntryOk(config, filterValues[k])]),
                FirstFailing([k \in 1..Len(result.data) |->
                                DataEntryOk(schema, result.data[k])]),
                FirstFailing([k \in 1..Len(result.sort) |->
                                In(result.sort[k].key, config.validation)]))
  IN WithValues(getFilterValues(result.filter))

\* Object.assign({}, filter, result.filter): the path-derived entries win
MergeQueryWins(fromQuery, fromPath) == Assign(Assign(<<>>, fromPath), fromQuery)

Merge(fromQuery, fromPath) == Assign(Assign(<<>>, fromQuery), fromPath)

\* request.method.match(/^put|patch|delete$/i)
IsMutatingMethod(method) == method \in {"put", "patch", "delete"}

Command(data, filter, sort, pagination, columns) ==
  [data |-> data, filter |-> filter, sort |-> sort, pagination |-> pagination,
   columns |-> columns]

NoCommand == Command(<<>>, <<>>, <<>>, NoPagination, [given |-> FALSE, list |-> <<>>])

\* the outcome of request processing: threw with error, or a command;
\* preQuery = the preQuery hook was invoked
Threw(error) == [threw |-> TRUE, error |-> error, command |-> NoCommand, preQuery |-> FALSE]
Processed(command) == [threw |-> FALSE, error |-> NoError, command |-> command, preQuery |-> TRUE]

\* config.preQuery, by default result => result
preQuery(command) == command

processRequest(config, request) ==
  LET pathFilter == IF request.id.k # "undef"
                    THEN <<Entry(config.primaryKey, Scalar(request.id))>>
                    ELSE <<>>
  IN IF InQuery(request.filter) /\ JSONparseThrows(request.filter)
     THEN Threw(ValidationError("Filter must be valid JSON"))
     ELSE IF InQuery(request.sort) /\ JSONparseThrows(request.sort)
     THEN Threw(ValidationError("Sort must be valid JSON"))
     ELSE IF InQuery(request.pagination) /\ JSONparseThrows(request.pagination)
     THEN Threw(ValidationError("Pagination must be valid JSON"))
     ELSE
       LET Validated(result, error) ==
             IF error # NoError THEN Threw(error)
             ELSE IF IsMutatingMethod(request.method) /\ Len(result.filter) < 1
             THEN Threw(ValidationError("For PUT/PATCH/DELETE, filter criteria cannot be empty"))
             ELSE Processed(preQuery(result))
           Built(result) == Validated(result, validate(config, result))
       IN Built(Command(request.payload,
                        IF InQuery(request.filter)
                        THEN Merge(JSONparse(request.filter), pathFilter)
                        ELSE pathFilter,
                        IF InQuery(request.sort)
                        THEN Merge(JSONparse(request.sort), <<>>)
                        ELSE <<>>,
                        IF InQuery(request.pagination)
                        THEN JSONparse(request.pagination)
                        ELSE config.pagination,
                        request.columns))

(***************************************************************************)
(* helpers.js: getRequestData                                              *)
(***************************************************************************)
getRequestData(config, request) ==
  IF \/ TruthyText(request.filter) /\ JSONparseThrows(request.filter)
     \/ TruthyText(request.sort) /\ JSONparseThrows(request.sort)
     \/ TruthyText(request.pagination) /\ JSONparseThrows(request.pagination)
  THEN Threw(SyntaxError)
  ELSE
    LET parsed == IF TruthyText(request.filter) THEN JSONparse(request.filter) ELSE <<>>
        filter == IF Truthy(request.id)
                  THEN Put(parsed, config.primaryKey, Scalar(request.id))
                  ELSE parsed
    IN Processed(preQuery(
         Command(request.payload,
                 filter,
                 IF TruthyText(request.sort) THEN JSONparse(request.sort) ELSE <<>>,
                 IF TruthyText(request.pagination)
                 THEN JSONparse(request.pagination)
                 ELSE config.pagination,
                 request.columns)))

(***************************************************************************)
(* Inputs of request processing                                            *)
(***************************************************************************)
NoColumns == [given |-> FALSE, list |-> <<>>]

FilterObjects ==
  { <<>>,
    <<Entry("ip", Scalar(Str("a")))>>,
    <<Entry("session_id", Scalar(Str("g2"))), Entry("ip", Scalar(Str("a")))>>,
    <<Entry("ip", Scalar(Str("b"))), Entry("session_id", Scalar(Str("g2")))>>,
    <<Entry("session_id", Scalar(Str("bad")))>>,
    <<Entry("ip", Scalar(Num(123)))>>,
    <<Entry("date_updated", Scalar(Null))>>,
    <<Entry("ip", Array(<<Str("a"), Str("b")>>))>>,
    <<Entry("ip", Array(<<>>))>>,
    <<Entry("unknown", Scalar(Str("x")))>> }

SortObjects ==
  { <<>>,
    <<Entry("ip", Num(1))>>,
    <<Entry("session_id", Num(-1)), Entry("ip", Num(1))>>,
    <<Entry("session_id", Num(1)), Entry("nonexistent_field", Num(1))>>,
    <<Entry("constructor", Num(1))>> }

PaginationValues ==
  { PObj(Num(1), Num(2), FALSE), PObj(Num(2), Num(2), FALSE),
    PObj(Num(0), Num(2), FALSE), PObj(Num(1), Num(0), FALSE),
    PObj(Num(1), Undef, FALSE), PObj(Undef, Num(2), FALSE),
    PObj(Undef, Undef, FALSE), PObj(Frac(1), Num(2), FALSE),
    PObj(Str("2"), Num(2), FALSE), PObj(Str("x"), Num(2), FALSE),
    PObj(Num(1), Num(2), TRUE), PScalar(Null), PScalar(Num(5)) }

Texts(values, z) == {Absent(z), EmptyText(z), Malformed(z)} \cup {Json(v) : v \in values}

Request(method, id, filter, sort, pagination, columns, payload) ==
  [method |-> method, id |-> id, filter |-> filter, sort |-> sort,
   pagination |-> pagination, columns |-> columns, payload |-> payload]

ProcRequests ==
  { Request(m, id, f, s, p, NoColumns, <<>>) :
      m \in {"get", "patch"},
      id \in {Undef, Str("g1"), Str("bad")},
      f \in Texts(FilterObjects, <<>>),
      s \in Texts(SortObjects, <<>>) \ {EmptyText(<<>>)},
      p \in Texts(PaginationValues, NoPagination) }

InitReq ==
  /\ table = <<>>
  /\ last = "none"
  /\ err = "none"
  /\ qb = "none"
  /\ proc \in [gen : {"api", "ctl"}, request : ProcRequests, out : {Threw(NoError)},
               done : {FALSE}]

RunProcessRequest ==
  /\ ~proc.done
  /\ proc.gen = "api"
  /\ proc' = [proc EXCEPT !.out = processRequest(Config, proc.request), !.done = TRUE]
  /\ UNCHANGED <<table, last, err, qb>>

RunGetRequestData ==
  /\ ~proc.done
  /\ proc.gen = "ctl"
  /\ proc' = [proc EXCEPT !.out = getRequestData(Config, proc.request), !.done = TRUE]
  /\ UNCHANGED <<table, last, err, qb>>

NextReq == RunProcessRequest \/ RunGetRequestData

SpecReq == InitReq /\ [][NextReq]_vars

\* the text of a query parameter is given and is not JSON
NotJson(q) == q.text \in {"empty", "malformed"}

\* C4: a filter, sort or pagination query parameter that is not valid JSON
\* makes request processing fail with a ValidationError, before the preQuery
\* hook runs.
C4_MalformedJsonIsValidationError ==
  (proc.done /\ (NotJson(proc.request.filter) \/ NotJson(proc.request.sort)
                   \/ NotJson(proc.request.pagination)))
    => /\ proc.out.threw
       /\ proc.out.error.name = "ValidationError"
       /\ ~proc.out.preQuery

\* C5: when the path carries an id, the processed command has
\* filter[primaryKey] = the path id whatever the query-string filter gave
\* for the primary key, and every other key of the query-string filter is
\* kept with its value.
C5_PathIdWins ==
  (proc.done /\ ~proc.out.threw /\ proc.request.id.k # "undef")
    => LET filter == proc.out.command.filter
           given == IF proc.request.filter.text = "json" THEN proc.request.filter.json ELSE <<>>
       IN /\ Has(filter, Config.primaryKey)
          /\ Get(filter, Config.primaryKey) = Scalar(proc.request.id)
          /\ \A i \in 1..Len(given) :
               given[i].key # Config.primaryKey
                 => Has(filter, given[i].key) /\ Get(filter, given[i].key) = given[i].val
          /\ KeySet(filter) = KeySet(given) \cup {Config.primaryKey}

C5_Witness ==
  /\ proc.done
  /\ ~proc.out.threw
  /\ proc.gen = "api"
  /\ proc.request.id = Str("g1")
  /\ proc.request.filter = Json(<<Entry("ip", Scalar(Str("b"))), Entry("session_id", Scalar(Str("g2")))>>)
  /\ Get(proc.out.command.filter, "session_id") = Scalar(Str("g1"))
  /\ Get(proc.out.command.filter, "ip") = Scalar(Str("b"))

IsPositiveInteger(v) == v.k = "num" /\ v.half = 0 /\ v.n >= 1

\* C9: when a pagination parameter is present, the request is accepted only
\* if it holds a positive integer page and a positive integer perPage,
\* perPage being taken as 100 when unset; anything else is rejected with the
\* fixed ValidationError message.
C9_PaginationChecked ==
  (proc.done /\ proc.request.pagination.text = "json")
    => LET p == proc.request.pagination.json
           good == /\ p.t = "obj"
                   /\ ~p.extra
                   /\ IsPositiveInteger(p.page)
                   /\ (p.perPage.k = "undef" \/ IsPositiveInteger(p.perPage))
       IN IF good
          THEN ~proc.out.threw =>
                 proc.out.command.pagination.perPage =
                   IF p.perPage.k = "undef" THEN Num(DEFAULT_PER_PAGE) ELSE p.perPage
          ELSE /\ proc.out.threw
               /\ proc.out.error = ValidationError(PAGINATION_MESSAGE)

(***************************************************************************)
(* SQL statements.  A statement is kept as its parts, with the placeholder *)
(* numbers ($1, $2, ...) where the text has them:                          *)
(*   where   fragments [kind, field, binds], joined by AND                 *)
(*             kind "isnull": field IS NULL                                *)
(*             kind "false":  0=1                                          *)
(*             kind "in":     field IN ($b1, $b2, ...)                     *)
(*             kind "eq":     field = $b1                                  *)
(*   assign  [field, bind]: the columns of INSERT, the SET of UPDATE       *)
(*   order   [field, dir]                                                  *)
(*   limit, offset  [given, nan, n]                                        *)
(*   params  the bound parameters                                          *)
(*   columns the columns selected or returned, <<>> for *                  *)
(***************************************************************************)
Fragment(kind, field, binds) == [kind |-> kind, field |-> field, binds |-> binds]
NoLimit == [given |-> FALSE, nan |-> FALSE, n |-> 0]
Limit(nan, n) == [given |-> TRUE, nan |-> nan, n |-> n]

\* ON CONFLICT (fields) DO UPDATE SET f=EXCLUDED.f for each f of set
NoConflict == [given |-> FALSE, fields |-> <<>>, set |-> <<>>]
OnConflict(fields, set) == [given |-> TRUE, fields |-> fields, set |-> set]

Statement(type, where, assign, order, limit, offset, params, columns) ==
  [type |-> type, where |-> where, assign |-> assign, order |-> order,
   limit |-> limit, offset |-> offset, params |-> params, columns |-> columns,
   conflict |-> NoConflict]

\* parseInt(v, 10): [nan, n]
parseInt(v) ==
  CASE v.k = "num" -> [nan |-> FALSE, n |-> v.n]
    [] v.k = "str" /\ v.s \in NumericStrings -> [nan |-> FALSE, n |-> NumericValue(v.s)]
    [] OTHER -> [nan |-> TRUE, n |-> 0]

(***************************************************************************)
(* query.js: class SQLQueryBuilder                                         *)
(***************************************************************************)
NewBuilder ==
  [mode |-> "null", data |-> <<>>, filter |-> <<>>, sort |-> <<>>, pagination |-> NoPagination]

FilterFragment_restartNumbering(e, n) ==
  IF e.val.t = "scalar" /\ e.val.v.k = "null" THEN Fragment("isnull", e.key, <<>>)
  ELSE IF e.val.t = "array"
       THEN IF Len(e.val.items) = 0 THEN Fragment("false", e.key, <<>>)
            ELSE Fragment("in", e.key, [i \in 1..Len(e.val.items) |-> i])
       ELSE Fragment("eq", e.key, <<1>>)

\* the fragment and the parameters one filter entry adds after n parameters
FilterFragment(e, n) ==
  IF e.val.t = "scalar" /\ e.val.v.k = "null" THEN Fragment("isnull", e.key, <<>>)
  ELSE IF e.val.t = "array"
       THEN IF Len(e.val.items) = 0 THEN Fragment("false", e.key, <<>>)
            ELSE Fragment("in", e.key, [i \in 1..Len(e.val.items) |-> i + n])
       ELSE Fragment("eq", e.key, <<n + 1>>)

FilterParams(e) ==
  IF e.val.t = "scalar" /\ e.val.v.k = "null" THEN <<>>
  ELSE IF e.val.t = "array" THEN e.val.items
       ELSE <<e.val.v>>

RECURSIVE FilterReduce(_, _, _)
FilterReduce(filter, where, queryParams) ==
  IF filter = <<>> THEN [where |-> where, queryParams |-> queryParams]
  ELSE FilterReduce(Tail(filter),
                    Append(where, FilterFragment(Head(filter), Len(queryParams))),
                    queryParams \o FilterParams(Head(filter)))

getFilterQuery(filter, queryParams) == FilterReduce(filter, <<>>, queryParams)

\* a translation that lists every field ascending
getSortQuery_allAscending(sort) ==
  [i \in 1..Len(sort) |-> [field |-> sort[i].key, dir |-> "ASC"]]

getSortQuery(sort) ==
  [i \in 1..Len(sort) |->
     [field |-> sort[i].key, dir |-> IF sort[i].val = Num(-1) THEN "DESC" ELSE "ASC"]]

getPaginationQuery(pagination) ==
  IF TruthyPagination(pagination)
  THEN LET limit == parseInt(pagination.perPage)
           page == parseInt(pagination.page)
       IN [limit |-> Limit(limit.nan, limit.n),
           offset |-> Limit(limit.nan \/ page.nan, (page.n - 1) * limit.n)]
  ELSE [limit |-> NoLimit, offset |-> NoLimit]

selectQuery(b) ==
  LET f == getFilterQuery(b.filter, <<>>)
      p == getPaginationQuery(b.pagination)
  IN Statement("select", f.where, <<>>, getSortQuery(b.sort), p.limit, p.offset, f.queryParams, <<>>)

selectRowCountQuery(b) ==
  LET f == getFilterQuery(b.filter, <<>>)
  IN Statement("count", f.where, <<>>, <<>>, NoLimit, NoLimit, f.queryParams, <<>>)

deleteQuery(b) ==
  LET f == getFilterQuery(b.filter, <<>>)
  IN Statement("delete", f.where, <<>>, <<>>, NoLimit, NoLimit, f.queryParams, <<>>)

insertQuery(b) ==
  Statement("insert", <<>>,
            [i \in 1..Len(b.data) |-> [field |-> b.data[i].key, bind |-> i]],
            <<>>, NoLimit, NoLimit,
            [i \in 1..Len(b.data) |-> b.data[i].val], <<>>)

\* data placeholders numbered from 1 again
updateQuery_restartData(b) ==
  LET f == getFilterQuery(b.filter, <<>>)
  IN Statement("update", f.where,
               [i \in 1..Len(b.data) |-> [field |-> b.data[i].key, bind |-> i]],
               <<>>, NoLimit, NoLimit,
               f.queryParams \o [i \in 1..Len(b.data) |-> b.data[i].val], <<>>)

updateQuery(b) ==
  LET f == getFilterQuery(b.filter, <<>>)
      n == Len(f.queryParams)
  IN Statement("update", f.where,
               [i \in 1..Len(b.data) |-> [field |-> b.data[i].key, bind |-> n + i]],
               <<>>, NoLimit, NoLimit,
               f.queryParams \o [i \in 1..Len(b.data) |-> b.data[i].val], <<>>)

NoStatement == Statement("none", <<>>, <<>>, <<>>, NoLimit, NoLimit, <<>>, <<>>)

\* a getQuery that never throws
getQueryThrows_never(b) == FALSE

\* getQuery: the statement of the selected mode, or ConfigError
getQueryThrows(b) == b.mode \notin {"select", "select-row-count", "insert", "update", "delete"}

getQuery(b) ==
  CASE b.mode = "select" -> selectQuery(b)
    [] b.mode = "select-row-count" -> selectRowCountQuery(b)
    [] b.mode = "insert" -> insertQuery(b)
    [] b.mode = "update" -> updateQuery(b)
    [] b.mode = "delete" -> deleteQuery(b)
    [] OTHER -> NoStatement

(***************************************************************************)
(* The database: table sessions (session_id PRIMARY KEY, ip NOT NULL,      *)
(* date_created NOT NULL, date_updated, email), as the sequence of its     *)
(* rows, and what PostgreSQL answers to a statement.                       *)
(***************************************************************************)
Columns == {"session_id", "ip", "date_created", "date_updated", "email"}
NotNullColumns == {"session_id", "ip", "date_created"}

Row(session_id, ip, date_created, date_updated) ==
  [session_id |-> session_id, ip |-> ip, date_created |-> date_created,
   date_updated |-> date_updated, email |-> Null]

\* the order of the strings that rows hold
Collation ==
  <<"  BOB@EXAMPLE.COM   ", " b ", "a", "b", "bob@example.com", "BOB@EXAMPLE.COM",
    "g1", "g2", "g3", "g4", "now", "t0">>
Rank(s) == CHOOSE i \in 1..Len(Collation) : Collation[i] = s

\* a bound parameter as the text the driver sends
SqlText(v) ==
  CASE v.k = "null" -> Null
    [] v.k = "undef" -> Null
    [] v.k = "num" -> Str(IF v.half = 1 THEN ToString(v.n) \o ".5" ELSE ToString(v.n))
    [] OTHER -> v

PgError(code) == MkError("error", "", Str(code))

\* what connection.query gives: it rejects with error, or resolves with rows
\* and rowCount (totalrowcount: the one column of a COUNT(*) row, as text);
\* table is the table afterwards
Result(error, rows, rowCount, totalrowcount, tbl) ==
  [error |-> error, rows |-> rows, rowCount |-> rowCount,
   totalrowcount |-> totalrowcount, table |-> tbl]

Rejected(code, tbl) == Result(PgError(code), <<>>, 0, "", tbl)

\* field = $n is true only between two equal non-null values
SqlEquals(a, b) == a.k # "null" /\ b.k # "null" /\ a = b

MatchesFragment(row, frag, params) ==
  CASE frag.kind = "isnull" -> row[frag.field].k = "null"
    [] frag.kind = "false" -> FALSE
    [] frag.kind = "in" ->
         \E i \in 1..Len(frag.binds) : SqlEquals(row[frag.field], SqlText(params[frag.binds[i]]))
    [] OTHER -> SqlEquals(row[frag.field], SqlText(params[frag.binds[1]]))

Matches(row, stmt) ==
  \A i \in 1..Len(stmt.where) : MatchesFragment(row, stmt.where[i], stmt.params)

\* the indices of tbl whose rows match, in table order
MatchingIndices(tbl, stmt) == {i \in 1..Len(tbl) : Matches(tbl[i], stmt)}

\* ASC puts NULL last, DESC puts it first
CompareValues(a, b, dir) ==
  LET up == IF a = b THEN 0
            ELSE IF a.k = "null" THEN 1
            ELSE IF b.k = "null" THEN -1
            ELSE IF Rank(a.s) < Rank(b.s) THEN -1 ELSE 1
  IN IF dir = "DESC" THEN 0 - up ELSE up

RECURSIVE CompareRows(_, _, _)
CompareRows(r1, r2, order) ==
  IF order = <<>> THEN 0
  ELSE LET c == CompareValues(r1[Head(order).field], r2[Head(order).field], Head(order).dir)
       IN IF c # 0 THEN c ELSE CompareRows(r1, r2, Tail(order))

\* insert r after every row of sorted that does not follow it
InsertSorted(r, sorted, order) ==
  LET n == Cardinality({i \in 1..Len(sorted) : CompareRows(sorted[i], r, order) <= 0})
  IN SubSeq(sorted, 1, n) \o <<r>> \o SubSeq(sorted, n + 1, Len(sorted))

RECURSIVE OrderBy(_, _)
OrderBy(rows, order) ==
  IF rows = <<>> THEN <<>>
  ELSE InsertSorted(rows[Len(rows)], OrderBy(SubSeq(rows, 1, Len(rows) - 1), order), order)

Min(a, b) == IF a < b THEN a ELSE b

LimitOffset(rows, limit, offset) ==
  LET from == IF offset.given THEN offset.n ELSE 0
      upto == IF limit.given THEN Min(Len(rows), from + limit.n) ELSE Len(rows)
  IN SubSeq(rows, from + 1, upto)

StatementFields(stmt) ==
  {stmt.where[i].field : i \in {j \in 1..Len(stmt.where) : stmt.where[j].kind # "false"}}
    \cup {stmt.assign[i].field : i \in 1..Len(stmt.assign)}
    \cup {stmt.order[i].field : i \in 1..Len(stmt.order)}
    \cup {stmt.columns[i] : i \in 1..Len(stmt.columns)}
    \cup {stmt.conflict.fields[i] : i \in 1..Len(stmt.conflict.fields)}
    \cup {stmt.conflict.set[i] : i \in 1..Len(stmt.conflict.set)}

SelectSeqByIndex(tbl, indices) ==
  LET keep == {i \in 1..Len(tbl) : i \in indices}
      RECURSIVE Build(_)
      Build(i) == IF i = 0 THEN <<>>
                  ELSE IF i \in keep THEN Append(Build(i - 1), tbl[i]) ELSE Build(i - 1)
  IN Build(Len(tbl))

\* the row after SET: each assigned column takes its parameter
RECURSIVE ApplyAssign(_, _, _)
ApplyAssign(row, assign, params) ==
  IF assign = <<>> THEN row
  ELSE ApplyAssign([row EXCEPT ![Head(assign).field] = SqlText(params[Head(assign).bind])],
                   Tail(assign), params)

EmptyRow == Row(Null, Null, Null, Null)

ViolatesNotNull(row) == \E c \in NotNullColumns : row[c].k = "null"

ViolatesUnique(tbl) ==
  \E i, j \in 1..Len(tbl) : i # j /\ tbl[i].session_id = tbl[j].session_id

\* SELECT / RETURNING a column list: the other columns are not in the row
Project(rows, columns) ==
  IF columns = <<>> THEN rows
  ELSE [i \in 1..Len(rows) |->
          [c \in Columns |-> IF \E j \in 1..Len(columns) : columns[j] = c
                             THEN rows[i][c] ELSE Undef]]

ExecSelect(stmt, tbl) ==
  LET rows == LimitOffset(OrderBy(SelectSeqByIndex(tbl, MatchingIndices(tbl, stmt)), stmt.order),
                          stmt.limit, stmt.offset)
  IN Result(NoError, Project(rows, stmt.columns), Len(rows), "", tbl)

ExecCount(stmt, tbl) ==
  Result(NoError, <<>>, 1, ToString(Cardinality(MatchingIndices(tbl, stmt))), tbl)

\* the column sets that carry a unique index: the primary key
UniqueIndexes == {{"session_id"}}

\* DO UPDATE: the existing row takes EXCLUDED.f for each f of set
RECURSIVE SetExcluded(_, _, _)
SetExcluded(existing, excluded, set) ==
  IF set = <<>> THEN existing
  ELSE SetExcluded([existing EXCEPT ![Head(set)] = excluded[Head(set)]], excluded, Tail(set))

\* INSERT ... ON CONFLICT (fields) DO UPDATE SET ...: the proposed row is
\* checked for NOT NULL first; a row whose key is taken updates the row
\* that holds the key
ExecUpsert(stmt, tbl, row) ==
  LET hit == {i \in 1..Len(tbl) : tbl[i].session_id = row.session_id}
      at == CHOOSE i \in hit : TRUE
      updated == SetExcluded(tbl[at], row, stmt.conflict.set)
  IN IF stmt.conflict.fields = <<>> \/ stmt.conflict.set = <<>> THEN Rejected("42601", tbl)
     ELSE IF SeqToSet(stmt.conflict.fields) \notin UniqueIndexes THEN Rejected("42P10", tbl)
     ELSE IF ViolatesNotNull(row) THEN Rejected("23502", tbl)
     ELSE IF hit = {} THEN Result(NoError, Project(<<row>>, stmt.columns), 1, "", Append(tbl, row))
     ELSE IF ViolatesNotNull(updated) THEN Rejected("23502", tbl)
     ELSE Result(NoError, Project(<<updated>>, stmt.columns), 1, "",
                 [tbl EXCEPT ![at] = updated])

ExecInsert(stmt, tbl) ==
  LET row == ApplyAssign(EmptyRow, stmt.assign, stmt.params)
  IN IF stmt.assign = <<>> THEN Rejected("42601", tbl)
     ELSE IF stmt.conflict.given THEN ExecUpsert(stmt, tbl, row)
     ELSE IF ViolatesNotNull(row) THEN Rejected("23502", tbl)
     ELSE IF ViolatesUnique(Append(tbl, row)) THEN Rejected("23505", tbl)
     ELSE Result(NoError, Project(<<row>>, stmt.columns), 1, "", Append(tbl, row))

ExecUpdate(stmt, tbl) ==
  LET hit == MatchingIndices(tbl, stmt)
      after == [i \in 1..Len(tbl) |->
                  IF i \in hit THEN ApplyAssign(tbl[i], stmt.assign, stmt.params) ELSE tbl[i]]
  IN IF stmt.assign = <<>> THEN Rejected("42601", tbl)
     ELSE IF \E i \in hit : ViolatesNotNull(after[i]) THEN Rejected("23502", tbl)
     ELSE IF ViolatesUnique(after) THEN Rejected("23505", tbl)
     ELSE Result(NoError, Project(SelectSeqByIndex(after, hit), stmt.columns),
                 Cardinality(hit), "", after)

ExecDelete(stmt, tbl) ==
  LET hit == MatchingIndices(tbl, stmt)
  IN Result(NoError, <<>>, Cardinality(hit), "", SelectSeqByIndex(tbl, (1..Len(tbl)) \ hit))

\* connection.query(query, queryParams)
Exec(stmt, tbl) ==
  IF ~(StatementFields(stmt) \subseteq Columns) THEN Rejected("42703", tbl)
  ELSE IF (stmt.limit.given /\ stmt.limit.nan) \/ (stmt.offset.given /\ stmt.offset.nan)
       THEN Rejected("42703", tbl)
  ELSE IF stmt.limit.given /\ stmt.limit.n < 0 THEN Rejected("2201W", tbl)
  ELSE IF stmt.offset.given /\ stmt.offset.n < 0 THEN Rejected("2201X", tbl)
  ELSE CASE stmt.type = "select" -> ExecSelect(stmt, tbl)
         [] stmt.type = "count" -> ExecCount(stmt, tbl)
         [] stmt.type = "insert" -> ExecInsert(stmt, tbl)
         [] stmt.type = "update" -> ExecUpdate(stmt, tbl)
         [] stmt.type = "delete" -> ExecDelete(stmt, tbl)
         [] OTHER -> Rejected("42601", tbl)

(***************************************************************************)
(* repository.js: class Repository.  find, findRowCount, update and delete *)
(* hand a query object to mongo-sql: a where object of scalar and null     *)
(* values becomes field = $n and field IS NULL joined by AND, order        *)
(* becomes ORDER BY, limit and offset become LIMIT $n and OFFSET $n.       *)
(***************************************************************************)
MongoWhereFragment(e, n) ==
  IF e.val.v.k = "null" THEN Fragment("isnull", e.key, <<>>)
  ELSE Fragment("eq", e.key, <<n + 1>>)

RECURSIVE MongoWhere(_, _, _)
MongoWhere(filter, where, values) ==
  IF filter = <<>> THEN [where |-> where, values |-> values]
  ELSE LET e == Head(filter)
       IN MongoWhere(Tail(filter),
                     Append(where, MongoWhereFragment(e, Len(values))),
                     IF e.val.v.k = "null" THEN values ELSE Append(values, e.val.v))

\* mapSort: +1/-1 to ASC/DESC
mapSort(sort) ==
  [i \in 1..Len(sort) |->
     [field |-> sort[i].key, dir |-> IF sort[i].val = Num(-1) THEN "DESC" ELSE "ASC"]]

\* a JavaScript number bound to LIMIT or OFFSET: an integer is taken, any
\* other value is not a bigint
BoundInteger(v) ==
  IF v.k = "num" /\ v.half = 0 THEN Limit(FALSE, v.n) ELSE Limit(TRUE, 0)

\* (pagination.page - 1) * pagination.perPage
PageOffset(page, perPage) ==
  IF page.k = "num" /\ page.half = 0 /\ perPage.k = "num" /\ perPage.half = 0
  THEN Limit(FALSE, (page.n - 1) * perPage.n)
  ELSE Limit(TRUE, 0)

REPOSITORY_FIND_LIMIT == 10

Repository_find(filter, sort, pagination, columns) ==
  LET w == MongoWhere(filter, <<>>, <<>>)
  IN Statement("select", w.where, <<>>, mapSort(sort),
               IF TruthyPagination(pagination)
               THEN BoundInteger(pagination.perPage)
               ELSE Limit(FALSE, REPOSITORY_FIND_LIMIT),
               IF TruthyPagination(pagination)
               THEN PageOffset(pagination.page, pagination.perPage)
               ELSE NoLimit,
               w.values,
               IF columns.given THEN columns.list ELSE <<>>)

Repository_findRowCount(filter) ==
  LET w == MongoWhere(filter, <<>>, <<>>)
  IN Statement("count", w.where, <<>>, <<>>, NoLimit, NoLimit, w.values, <<>>)

\* the values bound in the reverse order of the columns
Repository_create_reversedParams(data, columns) ==
  Statement("insert", <<>>,
            [i \in 1..Len(data) |-> [field |-> data[i].key, bind |-> Len(data) + 1 - i]],
            <<>>, NoLimit, NoLimit,
            [i \in 1..Len(data) |-> data[i].val],
            IF columns.given THEN columns.list ELSE <<>>)

Repository_create(data, columns) ==
  Statement("insert", <<>>,
            [i \in 1..Len(data) |-> [field |-> data[i].key, bind |-> i]],
            <<>>, NoLimit, NoLimit,
            [i \in 1..Len(data) |-> data[i].val],
            IF columns.given THEN columns.list ELSE <<>>)

\* an ON CONFLICT clause that sets every column of the insert
Repository_createUpsert_setAll(upsert, data, columns) ==
  IF upsert.given
  THEN [Repository_create(data, columns) EXCEPT
          !.conflict = OnConflict(upsert.fields, Keys(data))]
  ELSE Repository_create(data, columns)

\* Repository.create with config.upsert = {fields, set}
Repository_createUpsert(upsert, data, columns) ==
  IF upsert.given
  THEN [Repository_create(data, columns) EXCEPT
          !.conflict = OnConflict(upsert.fields, upsert.set)]
  ELSE Repository_create(data, columns)

\* SQLQueryBuilder.insertQuery with config.upsert = {fields, set}
insertQueryUpsert(upsert, b) ==
  IF upsert.given
  THEN [insertQuery(b) EXCEPT !.conflict = OnConflict(upsert.fields, upsert.set)]
  ELSE insertQuery(b)

Repository_update(filter, data) ==
  LET n == Len(data)
      w == MongoWhere(filter, <<>>, [i \in 1..n |-> data[i].val])
  IN Statement("update", w.where,
               [i \in 1..n |-> [field |-> data[i].key, bind |-> i]],
               <<>>, NoLimit, NoLimit, w.values, <<>>)

Repository_delete(filter) ==
  LET w == MongoWhere(filter, <<>>, <<>>)
  IN Statement("delete", w.where, <<>>, <<>>, NoLimit, NoLimit, w.values, <<>>)

\* dbQuery: connection.query rejects when the connection is down
dbQuery(stmt, tbl, down) == IF down THEN Rejected("08006", tbl) ELSE Exec(stmt, tbl)

(***************************************************************************)
(* The query builder and Repository.find on their own: a builder is        *)
(* configured by its fluent calls in any order, then getQuery's statement  *)
(* is sent to the database.                                                *)
(***************************************************************************)
QbTables ==
  { <<>>,
    << Row(Str("g1"), Str("a"), Str("t0"), Null),
       Row(Str("g2"), Str("b"), Str("t0"), Str("now")),
       Row(Str("g3"), Str("a"), Str("now"), Null) >>,
    << Row(Str("g3"), Str("b"), Str("t0"), Str("t0")),
       Row(Str("g2"), Str("a"), Str("t0"), Null) >> }

QbFilters ==
  FilterObjects \cup
    { <<Entry("ip", Array(<<Str("a")>>)), Entry("date_updated", Scalar(Null))>>,
      <<Entry("session_id", Array(<<Str("g1"), Str("g3")>>)), Entry("ip", Scalar(Str("a")))>> }

QbPaginations ==
  { NoPagination, PObj(Num(1), Num(2), FALSE), PObj(Num(2), Num(2), FALSE),
    PObj(Num(3), Num(2), FALSE), PObj(Str("2"), Num(1), FALSE), PObj(Num(0), Num(2), FALSE),
    PObj(Num(1), Undef, FALSE) }

QbData ==
  { <<>>,
    <<Entry("ip", Str("b"))>>,
    <<Entry("session_id", Str("g1")), Entry("ip", Str("a")), Entry("date_created", Str("now"))>> }

QbSorts ==
  SortObjects \cup
    { <<Entry("ip", Num(-1)), Entry("date_created", Num(1)), Entry("session_id", Num(-1))>> }

NoResult == Result(NoError, <<>>, 0, "", <<>>)

\* qb.via: "builder" for an SQLQueryBuilder, "repository" for Repository.find;
\* qb.chosen: the mode method called last on the builder, "null" when none
\* was called
InitQb ==
  /\ table \in QbTables
  /\ last = "none"
  /\ err = "none"
  /\ proc = "none"
  /\ qb = [via |-> "builder", b |-> NewBuilder, done |-> FALSE, threw |-> NoError,
           stmt |-> NoStatement, result |-> NoResult, before |-> <<>>, chosen |-> "null"]

QbMode(mode) ==
  /\ ~qb.done
  /\ qb' = [qb EXCEPT !.b.mode = mode, !.chosen = mode]
  /\ UNCHANGED <<table, last, err, proc>>

QbSelect == QbMode("select")
QbSelectRowCount == QbMode("select-row-count")
QbInsert == QbMode("insert")
QbUpdate == QbMode("update")
QbDelete == QbMode("delete")

QbSetData ==
  /\ ~qb.done
  /\ \E data \in QbData : qb' = [qb EXCEPT !.b.data = data]
  /\ UNCHANGED <<table, last, err, proc>>

QbSetFilter ==
  /\ ~qb.done
  /\ \E filter \in QbFilters : qb' = [qb EXCEPT !.b.filter = filter]
  /\ UNCHANGED <<table, last, err, proc>>

QbSetSort ==
  /\ ~qb.done
  /\ \E sort \in QbSorts : qb' = [qb EXCEPT !.b.sort = sort]
  /\ UNCHANGED <<table, last, err, proc>>

QbSetPagination ==
  /\ ~qb.done
  /\ \E pagination \in QbPaginations : qb' = [qb EXCEPT !.b.pagination = pagination]
  /\ UNCHANGED <<table, last, err, proc>>

\* const { query, queryParams } = q.getQuery(); await dbQuery(query, queryParams)
QbRun ==
  /\ ~qb.done
  /\ IF getQueryThrows(qb.b)
     THEN /\ qb' = [qb EXCEPT !.done = TRUE, !.threw = ConfigError("Invalid SQL query mode"),
                              !.before = table]
          /\ table' = table
     ELSE LET stmt == getQuery(qb.b)
              result == dbQuery(stmt, table, FALSE)
          IN /\ qb' = [qb EXCEPT !.done = TRUE, !.stmt = stmt, !.result = result,
                                 !.before = table]
             /\ table' = result.table
  /\ UNCHANGED <<last, err, proc>>

\* filters that mongo-sql is given: scalar and null values
IsFlat(filter) == \A i \in 1..Len(filter) : filter[i].val.t = "scalar"

RepoPaginations ==
  { NoPagination, PObj(Num(1), Num(2), FALSE), PObj(Num(2), Num(2), FALSE),
    PObj(Num(3), Num(2), FALSE), PObj(Num(0), Num(2), FALSE) }

\* repo.find(filter, sort, pagination, columns)
QbRepositoryFind ==
  /\ ~qb.done
  /\ qb.b = NewBuilder
  /\ \E filter \in {f \in FilterObjects : IsFlat(f)}, sort \in QbSorts,
        pagination \in RepoPaginations :
       LET stmt == Repository_find(filter, sort, pagination, NoColumns)
           result == dbQuery(stmt, table, FALSE)
       IN /\ qb' = [qb EXCEPT !.via = "repository", !.done = TRUE, !.stmt = stmt,
                              !.result = result, !.before = table,
                              !.b = [NewBuilder EXCEPT !.mode = "select", !.filter = filter,
                                                       !.sort = sort, !.pagination = pagination]]
          /\ table' = result.table
  /\ UNCHANGED <<last, err, proc>>

NextQb ==
  \/ QbSelect \/ QbSelectRowCount \/ QbInsert \/ QbUpdate \/ QbDelete
  \/ QbSetData \/ QbSetFilter \/ QbSetSort \/ QbSetPagination
  \/ QbRun \/ QbRepositoryFind

SpecQb == InitQb /\ [][NextQb]_vars

\* row satisfies every entry of filter: equality for a scalar, IS NULL for
\* null, membership for an array (no member of an empty array)
Satisfies(row, filter) ==
  \A i \in 1..Len(filter) :
    LET e == filter[i]
    IN IF e.val.t = "array"
       THEN \E j \in 1..Len(e.val.items) :
              e.val.items[j].k # "null" /\ row[e.key] = SqlText(e.val.items[j])
       ELSE IF e.val.v.k = "null" THEN row[e.key].k = "null"
       ELSE row[e.key] = SqlText(e.val.v)

HasEmptyArray(filter) ==
  \E i \in 1..Len(filter) : filter[i].val.t = "array" /\ filter[i].val.items = <<>>

\* a select of the builder that names only columns of the table
QbSelected ==
  /\ qb.done
  /\ qb.threw = NoError
  /\ qb.b.mode = "select"
  /\ KeySet(qb.b.filter) \subseteq Columns
  /\ KeySet(qb.b.sort) \subseteq Columns

AllSelected == OrderBy(SelectSeqByIndex(qb.before, {i \in 1..Len(qb.before) :
                                                      Satisfies(qb.before[i], qb.b.filter)}),
                       getSortQuery(qb.b.sort))

\* C7: with pagination {page, perPage} a select is limited to perPage rows
\* starting at offset (page-1)*perPage; with no pagination the select
\* carries no LIMIT and no OFFSET and returns all matching rows.
C7_LimitOffset ==
  QbSelected =>
    LET p == qb.b.pagination
    IN IF p.t = "obj" /\ IsPositiveInteger(p.page) /\ IsPositiveInteger(p.perPage)
       THEN /\ qb.stmt.limit = Limit(FALSE, p.perPage.n)
            /\ qb.stmt.offset = Limit(FALSE, (p.page.n - 1) * p.perPage.n)
            /\ qb.result.rows =
                 SubSeq(AllSelected, (p.page.n - 1) * p.perPage.n + 1,
                        Min(Len(AllSelected), p.page.n * p.perPage.n))
       ELSE ~TruthyPagination(p) =>
              /\ ~qb.stmt.limit.given
              /\ ~qb.stmt.offset.given
              /\ qb.result.rows = AllSelected

\* the statement type of each mode
StatementType(mode) ==
  CASE mode = "select" -> "select"
    [] mode = "select-row-count" -> "count"
    [] mode = "insert" -> "insert"
    [] mode = "update" -> "update"
    [] mode = "delete" -> "delete"
    [] OTHER -> "none"

\* C27: getQuery fails with a ConfigError exactly when no mode (select,
\* select-row-count, insert, update, delete) was selected since
\* construction; otherwise it returns the statement of the mode selected
\* last and of no other mode, whatever setters were called before or after
\* the mode was chosen.
C27_ModeDecidesStatement ==
  (qb.done /\ qb.via = "builder") =>
    /\ (qb.threw # NoError <=> qb.chosen = "null")
    /\ (qb.chosen = "null" =>
          /\ qb.threw.name = "ConfigError"
          /\ qb.stmt = NoStatement
          /\ table = qb.before)
    /\ (qb.chosen # "null" =>
          /\ qb.stmt.type = StatementType(qb.chosen)
          /\ (qb.chosen \in {"select", "select-row-count", "delete"} => qb.stmt.assign = <<>>)
          /\ (qb.chosen = "insert" => qb.stmt.where = <<>>)
          /\ (qb.chosen # "select" =>
                /\ qb.stmt.order = <<>>
                /\ ~qb.stmt.limit.given
                /\ ~qb.stmt.offset.given))

\* nothing but setters called, then getQuery
C27_Witness ==
  /\ qb.done
  /\ qb.via = "builder"
  /\ qb.chosen = "null"
  /\ qb.b.filter # <<>>
  /\ qb.b.data # <<>>
  /\ qb.threw = ConfigError("Invalid SQL query mode")

\* a delete chosen with data, sort and pagination set
C27_WitnessMode ==
  /\ qb.done
  /\ qb.chosen = "delete"
  /\ qb.b.data # <<>>
  /\ qb.b.sort # <<>>
  /\ TruthyPagination(qb.b.pagination)
  /\ qb.stmt.type = "delete"

\* a select built by the builder or by Repository.find
QbSelectBuilt ==
  /\ qb.done
  /\ qb.threw = NoError
  /\ qb.b.mode = "select"

\* C24: a sort object {f1: d1, ..., fk: dk} becomes an ORDER BY that lists
\* the fields in the object's insertion order, each ASC when its direction
\* is +1 and DESC when it is -1; an empty or absent sort gives no ORDER BY.
C24_SortTranslated ==
  QbSelectBuilt =>
    /\ Len(qb.stmt.order) = Len(qb.b.sort)
    /\ \A i \in 1..Len(qb.b.sort) :
         /\ qb.stmt.order[i].field = qb.b.sort[i].key
         /\ (qb.b.sort[i].val = Num(1) => qb.stmt.order[i].dir = "ASC")
         /\ (qb.b.sort[i].val = Num(-1) => qb.stmt.order[i].dir = "DESC")
    /\ (qb.b.sort = <<>> => qb.stmt.order = <<>>)

C24_Witness ==
  /\ QbSelectBuilt
  /\ qb.via = "builder"
  /\ qb.stmt.order = << [field |-> "ip", dir |-> "DESC"],
                         [field |-> "date_created", dir |-> "ASC"],
                         [field |-> "session_id", dir |-> "DESC"] >>
  /\ Len(qb.result.rows) = 3
  /\ qb.result.rows[1].ip = Str("b")

\* the placeholders of a statement in the order of its text
RECURSIVE WhereBinds(_)
WhereBinds(where) ==
  IF where = <<>> THEN <<>> ELSE Head(where).binds \o WhereBinds(Tail(where))

AssignBinds(assign) == [i \in 1..Len(assign) |-> assign[i].bind]

\* SET or VALUES come before WHERE in the text
Placeholders(stmt) == AssignBinds(stmt.assign) \o WhereBinds(stmt.where)

\* scalar (non-null) filter values plus array elements
RECURSIVE FilterValueCount(_)
FilterValueCount(filter) ==
  IF filter = <<>> THEN 0
  ELSE (IF Head(filter).val.t = "array" THEN Len(Head(filter).val.items)
        ELSE IF Head(filter).val.v.k = "null" THEN 0 ELSE 1)
       + FilterValueCount(Tail(filter))

\* a statement the builder produced
QbBuilt ==
  /\ qb.done
  /\ qb.via = "builder"
  /\ qb.threw = NoError

\* every placeholder $1..$n is used exactly once, n the number of parameters
EachPlaceholderOnce ==
  /\ Len(Placeholders(qb.stmt)) = Len(qb.stmt.params)
  /\ SeqToSet(Placeholders(qb.stmt)) = 1..Len(qb.stmt.params)

\* the parameter of each placeholder is the value of the field it is
\* compared or assigned with
ParamsAreFieldValues ==
  /\ \A i \in 1..Len(qb.stmt.assign) :
       /\ qb.stmt.assign[i].field = qb.b.data[i].key
       /\ qb.stmt.params[qb.stmt.assign[i].bind] = qb.b.data[i].val
  /\ (qb.b.mode # "insert" =>
        /\ Len(qb.stmt.where) = Len(qb.b.filter)
        /\ \A j \in 1..Len(qb.stmt.where) :
             LET e == qb.b.filter[j]
                 frag == qb.stmt.where[j]
             IN /\ (frag.kind # "false" => frag.field = e.key)
                /\ Len(frag.binds) = FilterValueCount(<<e>>)
                /\ \A k \in 1..Len(frag.binds) :
                     qb.stmt.params[frag.binds[k]] =
                       IF e.val.t = "array" THEN e.val.items[k] ELSE e.val.v)

\* C23 as stated: every placeholder $1..$n is used exactly once, n is the
\* length of queryParams and equals the number of scalar filter values plus
\* array elements plus, for update, data keys, and queryParams[i-1] is the
\* value of the field compared or assigned with $i.
C23_PlaceholdersAsStated ==
  QbBuilt =>
    /\ EachPlaceholderOnce
    /\ Len(qb.stmt.params) =
         FilterValueCount(qb.b.filter)
           + (IF qb.b.mode = "update" THEN Len(qb.b.data) ELSE 0)
    /\ ParamsAreFieldValues

\* C23: every placeholder $1..$n is used exactly once and its parameter is
\* the value of the field compared or assigned with it; n is the length of
\* queryParams: the number of scalar filter values plus array elements for
\* select, row count and delete, that number plus the number of data keys
\* for update, and the number of data keys alone for insert, which reads no
\* filter.
C23_PlaceholdersSequential ==
  QbBuilt =>
    /\ EachPlaceholderOnce
    /\ Len(qb.stmt.params) =
         (IF qb.b.mode = "insert" THEN 0 ELSE FilterValueCount(qb.b.filter))
           + (IF qb.b.mode \in {"update", "insert"} THEN Len(qb.b.data) ELSE 0)
    /\ ParamsAreFieldValues

C23_Witness ==
  /\ QbBuilt
  /\ qb.b.mode = "update"
  /\ Len(qb.b.data) = 3
  /\ FilterValueCount(qb.b.filter) = 3
  /\ \E j \in 1..Len(qb.b.filter) : qb.b.filter[j].val.t = "array"
  /\ Len(qb.stmt.params) = 6

(***************************************************************************)
(* What one handled request leaves behind: the reply, the table, the       *)
(* statements sent to the database, and whether the preQuery hook ran.     *)
(***************************************************************************)
Outcome(reply, tbl, sent, hook) ==
  [reply |-> reply, table |-> tbl, sent |-> sent, preQuery |-> hook]

\* moment().format('YYYY-MM-DD HH:mm:ss')
Now == Str("now")

MaxRows == 3

\* parseInt(result.rows[0].totalrowcount, 10)
ParseCount(text) == CHOOSE n \in 0..MaxRows : ToString(n) = text

PageCount_floor(totalRows, perPage) == totalRows \div perPage.n

\* Math.ceil(totalRows / perPage), perPage a positive integer
PageCount(totalRows, perPage) == (totalRows + perPage.n - 1) \div perPage.n

(***************************************************************************)
(* rest-api.js: class HAPIRestAPI                                          *)
(***************************************************************************)
\* this.errorReply(error, h) in a catch block: errorReply is a static
\* method, the instance has none, so the call throws a TypeError that
\* leaves the handler
ThisErrorReply(error) == Escaped(TypeError("this.errorReply is not a function"))

\* getPagination(request): [error, info]
getPagination(command, tbl, down) ==
  LET result == dbQuery(Repository_findRowCount(command.filter), tbl, down)
      totalRows == ParseCount(result.totalrowcount)
  IN IF result.error # NoError THEN [error |-> result.error, info |-> NoPaginationInfo]
     ELSE [error |-> NoError,
           info |-> PaginationInfo(command.pagination, totalRows,
                                   PageCount(totalRows, command.pagination.perPage))]

HAPIRestAPI_find(request, isMany, tbl, down) ==
  LET Answer(out, c, stmt, result, p) ==
        IF out.threw THEN Outcome(ThisErrorReply(out.error), tbl, <<>>, FALSE)
        ELSE IF result.error # NoError
             THEN Outcome(ThisErrorReply(result.error), tbl, <<stmt>>, TRUE)
        ELSE IF isMany
             THEN IF p.error # NoError
                  THEN Outcome(ThisErrorReply(p.error), tbl,
                               <<stmt, Repository_findRowCount(c.filter)>>, TRUE)
                  ELSE Outcome(Response(200, DataRows(result.rows), -1, p.info), tbl,
                               <<stmt, Repository_findRowCount(c.filter)>>, TRUE)
        ELSE IF Len(result.rows) # 1
             THEN Outcome(ThisErrorReply(NotFoundError("Query must return exactly 1 row")),
                          tbl, <<stmt>>, TRUE)
        ELSE Outcome(Response(200, DataRow(result.rows[1]), -1, NoPaginationInfo),
                     tbl, <<stmt>>, TRUE)
      Queried(out, c, stmt) ==
        Answer(out, c, stmt, dbQuery(stmt, tbl, down), getPagination(c, tbl, down))
      Built(out, c) ==
        Queried(out, c, Repository_find(c.filter, c.sort, c.pagination, c.columns))
      Start(out) == Built(out, out.command)
  IN Start(processRequest(Config, request))

HAPIRestAPI_create(request, tbl, down, uuid) ==
  LET Answer(out, stmt, result) ==
        IF out.threw THEN Outcome(ThisErrorReply(out.error), tbl, <<>>, FALSE)
        ELSE IF result.error # NoError
             THEN Outcome(ThisErrorReply(result.error), tbl, <<stmt>>, TRUE)
        ELSE Outcome(Response(201, DataRow(result.rows[1]), -1, NoPaginationInfo),
                     result.table, <<stmt>>, TRUE)
      Queried(out, stmt) == Answer(out, stmt, dbQuery(stmt, tbl, down))
      Built(out, c, withKey) ==
        Queried(out, Repository_create(Put(withKey, Config.onCreateTimestamp, Now), c.columns))
      Keyed(out, c) ==
        Built(out, c, IF ~Config.primaryKeyAuto /\ Config.primaryKeyGuid
                      THEN Put(c.data, Config.primaryKey, Str(uuid))
                      ELSE c.data)
      Start(out) == Keyed(out, out.command)
  IN Start(processRequest(Config, request))

HAPIRestAPI_update(request, isMany, tbl, down) ==
  LET Answer(out, stmt, result, returnData) ==
        IF out.threw THEN Outcome(ThisErrorReply(out.error), tbl, <<>>, FALSE)
        ELSE IF result.error # NoError
             THEN Outcome(ThisErrorReply(result.error), tbl, <<stmt>>, TRUE)
        ELSE IF isMany \/ result.rowCount = 1
             THEN Outcome(Response(200, returnData, result.rowCount, NoPaginationInfo),
                          result.table, <<stmt>>, TRUE)
        ELSE Outcome(ThisErrorReply(NotFoundError("Query must update exactly 1 row")),
                     result.table, <<stmt>>, TRUE)
      Returned(out, stmt, result) ==
        Answer(out, stmt, result,
               IF result.rowCount = 1 THEN DataRow(result.rows[1]) ELSE DataNull)
      Queried(out, stmt) == Returned(out, stmt, dbQuery(stmt, tbl, down))
      Built(out, c) ==
        Queried(out, Repository_update(c.filter, Put(c.data, Config.onUpdateTimestamp, Now)))
      Start(out) == Built(out, out.command)
  IN Start(processRequest(Config, request))

HAPIRestAPI_delete(request, tbl, down) ==
  LET Answer(out, stmt, result) ==
        IF out.threw THEN Outcome(ThisErrorReply(out.error), tbl, <<>>, FALSE)
        ELSE IF result.error # NoError
             THEN Outcome(ThisErrorReply(result.error), tbl, <<stmt>>, TRUE)
        ELSE IF result.rowCount > 0
             THEN Outcome(Response(200, DataNull, result.rowCount, NoPaginationInfo),
                          result.table, <<stmt>>, TRUE)
        ELSE Outcome(ThisErrorReply(NotFoundError("No records deleted")),
                     result.table, <<stmt>>, TRUE)
      Queried(out, stmt) == Answer(out, stmt, dbQuery(stmt, tbl, down))
      Start(out) == Queried(out, Repository_delete(out.command.filter))
  IN Start(processRequest(Config, request))

\* static replace (request, h): the 501 answer
HAPIRestAPI_replace(request, tbl) ==
  Outcome(Reply(501, MkError("NotImplementedError", "PUT for this API is not yet implemented",
                             Undef), {"name", "message"}),
          tbl, <<>>, FALSE)

\* what a handler that returns nothing hands back
ReturnedUndefined == [NoReply EXCEPT !.escaped = FALSE]

\* rest-hapi-interface.js: replace (request, h) {}
RestHAPIInterface_replace(request, tbl) == Outcome(ReturnedUndefined, tbl, <<>>, FALSE)

\* the methods HAPIRestAPI declares static: they are members of the class,
\* not of its instances
StaticMethods == {"errorReply", "replace"}

\* replaceOneRoute: handler this.replace.bind(this), `this.replace` being
\* the method found on the prototype chain of the instance
replaceOneRoute(request, tbl) ==
  IF "replace" \in StaticMethods
  THEN RestHAPIInterface_replace(request, tbl)
  ELSE HAPIRestAPI_replace(request, tbl)

(***************************************************************************)
(* validators.js                                                           *)
(***************************************************************************)
\* key.split('->')[0]
splitArrow(key) ==
  CASE key = "ip->>city" -> "ip"
    [] key = "geo->>city" -> "geo"
    [] key = "toString->>x" -> "toString"
    [] OTHER -> key

\* key.match('->')
matchArrow(key) == splitArrow(key) # key

\* the filter schema has the configured keys, each [rule, array of rule],
\* and Joi.any() for a key with '->' whose first part is `in` the schema;
\* any other key is not allowed
ValidateFilterEntryOk(config, e) ==
  IF Has(config.validation, e.key)
  THEN JoiValidOrArray(Get(config.validation, e.key), e.val)
  ELSE matchArrow(e.key) /\ In(splitArrow(e.key), config.validation)

validateFilter(filter, config, isRequired) ==
  LET filterValues == getFilterValues(filter)
      f == FirstFailing([k \in 1..Len(filterValues) |-> ValidateFilterEntryOk(config, filterValues[k])])
  IN IF isRequired /\ filter = <<>> THEN ValidationError("Filter parameter is required")
     ELSE IF f # 0 THEN JoiError(filterValues[f].key)
     ELSE NoError

\* a request payload: one object, or an array of objects
ObjectPayload(o) == [isArray |-> FALSE, rows |-> <<o>>]
ArrayPayload(rows) == [isArray |-> TRUE, rows |-> rows]

\* what Joi.validate returns: {error, value}, value being the payload after
\* Joi's conversions
ValidationResult(error, value) == [error |-> error, value |-> value]

\* the value of one object under a schema of rules
ConvertRow(schema, row) ==
  [i \in 1..Len(row) |->
     Entry(row[i].key,
           IF Has(schema, row[i].key)
           THEN JoiConvert(Get(schema, row[i].key), row[i].val)
           ELSE row[i].val)]

\* Joi.validate(payload, schema) for an object, Joi.array().items(schema)
\* for an array: the first entry of the first row that fails
JoiValidatePayload(payload, schema) ==
  LET bad == {i \in 1..Len(payload.rows) :
                FirstFailing([k \in 1..Len(payload.rows[i]) |-> DataEntryOk(schema, payload.rows[i][k])]) # 0}
      r == CHOOSE i \in bad : \A j \in bad : i <= j
      d == FirstFailing([k \in 1..Len(payload.rows[r]) |-> DataEntryOk(schema, payload.rows[r][k])])
  IN ValidationResult(IF bad = {} THEN NoError ELSE JoiError(payload.rows[r][d].key),
                      [payload EXCEPT !.rows = [i \in 1..Len(payload.rows) |->
                                                  ConvertRow(schema, payload.rows[i])]])

\* checkIdenticalKeys(data), data a non-empty array: the sorted, joined keys
\* of every row equal those of the first
checkIdenticalKeys(data) == \A i \in 1..Len(data) : KeySet(data[i]) = KeySet(data[1])

validateUpdatePayload(payload, config) ==
  JoiValidatePayload(payload, Omit(config.validation, config.primaryKey))

\* validators.js line 36 tests !checkIdenticalKeys, the function itself,
\* which is never false: the keys of the rows are not compared
validateCreatePayload(payload, config) ==
  LET rowSchema == IF config.primaryKeyAuto \/ config.primaryKeyGuid
                   THEN Omit(config.validation, config.primaryKey)
                   ELSE config.validation
  IN IF payload.isArray /\ FALSE
     THEN ValidationResult(
            ValidationError("All objects must have same keys in multi-row insert"), payload)
     ELSE JoiValidatePayload(payload, rowSchema)

\* the later validators.js (lines 150-182): checkIdenticalKeys is called,
\* and the primary key is Joi.forbidden() instead of omitted
validateCreatePayload_later(payload, config) ==
  LET rowSchema == IF config.primaryKeyAuto \/ config.primaryKeyGuid
                   THEN Omit(config.validation, config.primaryKey)
                   ELSE config.validation
  IN IF payload.isArray /\ ~checkIdenticalKeys(payload.rows)
     THEN ValidationResult(
            ValidationError("All objects must have same keys in multi-row insert"), payload)
     ELSE JoiValidatePayload(payload, rowSchema)

validateUpdatePayload_later(payload, config) ==
  JoiValidatePayload(payload, Omit(config.validation, config.primaryKey))

(***************************************************************************)
(* Payload validation on its own: one payload is validated under one       *)
(* primary key policy, by Request.processRequest (the class API), by       *)
(* validators.js (the controller API), or by the later validators.js.      *)
(***************************************************************************)
\* the primary key policies: guid (sessions-api.js), auto (auto-pk-api.js),
\* caller-supplied (numeric-pk-api.js)
ConfigWith(primaryKeyAuto, primaryKeyGuid) ==
  [Config EXCEPT !.primaryKeyAuto = primaryKeyAuto, !.primaryKeyGuid = primaryKeyGuid]

Configs == {ConfigWith(FALSE, TRUE), ConfigWith(TRUE, FALSE), ConfigWith(FALSE, FALSE)}

ValObjects ==
  { <<>>,
    <<Entry("ip", Str("b"))>>,
    <<Entry("ip", Num(123))>>,
    <<Entry("session_id", Str("g1")), Entry("ip", Str("a"))>>,
    <<Entry("ip", Str("a")), Entry("session_id", Str("g3"))>>,
    <<Entry("session_id", Str("bad")), Entry("ip", Str("a"))>>,
    <<Entry("email", Str("  BOB@EXAMPLE.COM   "))>>,
    <<Entry("ip", Str("a")), Entry("email", Str("bob@example.com"))>>,
    <<Entry("email", Str("b"))>>,
    <<Entry("unknown", Str("a"))>> }

ValArrays ==
  { <<r1, r2>> : r1, r2 \in { <<Entry("ip", Str("a"))>>,
                              <<Entry("ip", Str("b"))>>,
                              <<Entry("ip", Num(123))>>,
                              <<Entry("email", Str("  BOB@EXAMPLE.COM   ")), Entry("ip", Str("a"))>>,
                              <<Entry("ip", Str("b")), Entry("email", Str("bob@example.com"))>>,
                              <<Entry("session_id", Str("g3")), Entry("ip", Str("a"))>> } }

ValPayloads == {ObjectPayload(o) : o \in ValObjects} \cup {ArrayPayload(a) : a \in ValArrays}

InitVal ==
  /\ table = <<>>
  /\ last = "none"
  /\ err = "none"
  /\ qb = "none"
  /\ proc \in [gen : {"api", "ctl", "later"}, op : {"create", "update"}, config : Configs,
                payload : ValPayloads, result : {ValidationResult(NoError, ObjectPayload(<<>>))},
                done : {FALSE}]

\* the class API: processRequest of a POST to E or a PATCH to E/g1; the
\* data of the command is what the handler goes on to write
ValProcessRequest ==
  /\ ~proc.done
  /\ proc.gen = "api"
  /\ ~proc.payload.isArray
  /\ LET request == Request(IF proc.op = "create" THEN "post" ELSE "patch",
                            IF proc.op = "create" THEN Undef ELSE Str("g1"),
                            Absent(<<>>), Absent(<<>>), Absent(NoPagination), NoColumns,
                            proc.payload.rows[1])
         out == processRequest(proc.config, request)
     IN proc' = [proc EXCEPT !.done = TRUE,
                             !.result = ValidationResult(out.error,
                                                         ObjectPayload(out.command.data))]
  /\ UNCHANGED <<table, last, err, qb>>

ValCreatePayload ==
  /\ ~proc.done
  /\ proc.gen = "ctl"
  /\ proc.op = "create"
  /\ proc' = [proc EXCEPT !.done = TRUE,
                          !.result = validateCreatePayload(proc.payload, proc.config)]
  /\ UNCHANGED <<table, last, err, qb>>

\* an update takes one object
ValUpdatePayload ==
  /\ ~proc.done
  /\ proc.gen = "ctl"
  /\ proc.op = "update"
  /\ ~proc.payload.isArray
  /\ proc' = [proc EXCEPT !.done = TRUE,
                          !.result = validateUpdatePayload(proc.payload, proc.config)]
  /\ UNCHANGED <<table, last, err, qb>>

ValCreatePayloadLater ==
  /\ ~proc.done
  /\ proc.gen = "later"
  /\ proc.op = "create"
  /\ proc' = [proc EXCEPT !.done = TRUE,
                          !.result = validateCreatePayload_later(proc.payload, proc.config)]
  /\ UNCHANGED <<table, last, err, qb>>

ValUpdatePayloadLater ==
  /\ ~proc.done
  /\ proc.gen = "later"
  /\ proc.op = "update"
  /\ ~proc.payload.isArray
  /\ proc' = [proc EXCEPT !.done = TRUE,
                          !.result = validateUpdatePayload_later(proc.payload, proc.config)]
  /\ UNCHANGED <<table, last, err, qb>>

NextVal ==
  \/ ValProcessRequest
  \/ ValCreatePayload \/ ValUpdatePayload
  \/ ValCreatePayloadLater \/ ValUpdatePayloadLater

SpecVal == InitVal /\ [][NextVal]_vars

\* the primary key is generated by the server
ServerGenerated(config) == config.primaryKeyAuto \/ config.primaryKeyGuid

\* some row of the payload has the key
PayloadHas(payload, key) == \E i \in 1..Len(payload.rows) : Has(payload.rows[i], key)

\* every value of the payload satisfies the rule of its field
PayloadFieldsValid(payload, config) ==
  \A i \in 1..Len(payload.rows) : \A j \in 1..Len(payload.rows[i]) :
    DataEntryOk(config.validation, payload.rows[i][j])

\* C11: a payload that contains the primary key field is rejected with a
\* ValidationError in every update, and in a create exactly when the primary
\* key is server-generated; a create under the caller-supplied key policy
\* accepts the primary key.
C11_PrimaryKeyInPayload ==
  (proc.done /\ PayloadHas(proc.payload, proc.config.primaryKey))
    => IF proc.op = "update" \/ ServerGenerated(proc.config)
       THEN proc.result.error.name = "ValidationError"
       ELSE (PayloadFieldsValid(proc.payload, proc.config)
               /\ (proc.payload.isArray => checkIdenticalKeys(proc.payload.rows)))
              => proc.result.error = NoError

(***************************************************************************)
(* Filter validation: Request.validate of the class API and validateFilter *)
(* of the controller, on filters with scalars, arrays, operator objects,   *)
(* $or and JSON-path keys                                                  *)
(***************************************************************************)
FilterEntries ==
  { Entry("ip", Scalar(Str("a"))),
    Entry("ip", Scalar(Num(123))),
    Entry("ip", Scalar(Null)),
    Entry("ip", Array(<<Str("a"), Str("b")>>)),
    Entry("ip", Array(<<Num(123)>>)),
    Entry("ip", Array(<<>>)),
    Entry("ip", OperatorObject(<<Entry("$gt", Str("a"))>>)),
    Entry("ip", OperatorObject(<<Entry("$gt", Num(123))>>)),
    Entry("ip", OperatorObject(<<Entry("$gt", Str("a")), Entry("$ne", Num(123))>>)),
    Entry("ip", OperatorObject(<<Entry("$ne", Null)>>)),
    Entry("ip", OperatorObject(<<Entry("$like", Num(123))>>)),
    Entry("session_id", Scalar(Str("g1"))),
    Entry("session_id", Scalar(Str("bad"))),
    Entry("session_id", OperatorObject(<<Entry("$like", Str("bad"))>>)),
    Entry("session_id", OperatorObject(<<Entry("$ILIKE", Str("bad"))>>)),
    Entry("session_id", OperatorObject(<<Entry("$ne", Str("bad"))>>)),
    Entry("date_updated", Scalar(Null)),
    Entry("$or", ObjectArray(<<Entry("email", Str("bob@example.com")),
                               Entry("email", Str("BOB@EXAMPLE.COM"))>>)),
    Entry("ip->>city", Scalar(Str("a"))),
    Entry("geo->>city", Scalar(Str("a"))),
    Entry("toString->>x", Scalar(Str("a"))),
    Entry("unknown", Scalar(Str("a"))) }

Filters ==
  {<<>>} \cup {<<e>> : e \in FilterEntries}
         \cup {<<e1, e2>> : e1 \in {e \in FilterEntries : e.key = "ip"},
                            e2 \in {e \in FilterEntries : e.key # "ip"}}

InitFilter ==
  /\ table = <<>>
  /\ last = "none"
  /\ err = "none"
  /\ qb = "none"
  /\ proc \in [gen : {"api", "ctl"}, filter : Filters, isRequired : BOOLEAN,
                error : {NoError}, done : {FALSE}]

\* the class API: processRequest of GET E?filter=... or, the filter being
\* required, of DELETE E?filter=...
FilterProcessRequest ==
  /\ ~proc.done
  /\ proc.gen = "api"
  /\ LET request == Request(IF proc.isRequired THEN "delete" ELSE "get", Undef,
                            Json(proc.filter), Absent(<<>>), Absent(NoPagination),
                            NoColumns, <<>>)
     IN proc' = [proc EXCEPT !.done = TRUE, !.error = processRequest(Config, request).error]
  /\ UNCHANGED <<table, last, err, qb>>

\* the controller: validateFilter on the filter of the request
FilterValidateFilter ==
  /\ ~proc.done
  /\ proc.gen = "ctl"
  /\ proc' = [proc EXCEPT !.done = TRUE,
                          !.error = validateFilter(proc.filter, Config, proc.isRequired)]
  /\ UNCHANGED <<table, last, err, qb>>

NextFilter == FilterProcessRequest \/ FilterValidateFilter

SpecFilter == InitFilter /\ [][NextFilter]_vars

\* a leaf of an operator object that is not under $like or $ilike
CheckedLeaves(fv) == SelectSeq(fv.ops, LAMBDA e : ~matchLike(e.key))

\* the value given for a field of rule `rule` has a scalar, an array element
\* or an operator leaf (not under $like/$ilike) that fails the rule
GivesFailingValue(rule, fv) ==
  CASE fv.t = "scalar" -> ~JoiValid(rule, fv.v)
    [] fv.t = "array" -> \E i \in 1..Len(fv.items) : ~JoiValid(rule, fv.items[i])
    [] fv.t = "object" ->
         \E i \in 1..Len(CheckedLeaves(fv)) : ~JoiValid(rule, CheckedLeaves(fv)[i].val)
    [] OTHER -> FALSE

\* the same, a null leaf of an operator object not counted
GivesFailingNonNullValue(rule, fv) ==
  CASE fv.t = "object" ->
         \E i \in 1..Len(CheckedLeaves(fv)) :
           /\ CheckedLeaves(fv)[i].val.k # "null"
           /\ ~JoiValid(rule, CheckedLeaves(fv)[i].val)
    [] OTHER -> GivesFailingValue(rule, fv)

InitNorm ==
  /\ table = <<>>
  /\ last = "none"
  /\ err = "none"
  /\ qb = "none"
  /\ proc \in [gen : {"api", "ctl"}, filter : Filters, once : {<<>>}, twice : {<<>>},
               done : {FALSE}]

\* Request.getFilterValues(filter)
NormalizeStatic ==
  /\ ~proc.done
  /\ proc.gen = "api"
  /\ proc' = [proc EXCEPT !.done = TRUE, !.once = getFilterValues(proc.filter),
                          !.twice = getFilterValues(getFilterValues(proc.filter))]
  /\ UNCHANGED <<table, last, err, qb>>

\* validators.js getFilterValues(filter): the same code
Normalize ==
  /\ ~proc.done
  /\ proc.gen = "ctl"
  /\ proc' = [proc EXCEPT !.done = TRUE, !.once = getFilterValues(proc.filter),
                          !.twice = getFilterValues(getFilterValues(proc.filter))]
  /\ UNCHANGED <<table, last, err, qb>>

NextNorm == NormalizeStatic \/ Normalize

SpecNorm == InitNorm /\ [][NextNorm]_vars

\* the leaves of an operator object in traversal order, those under $like
\* or $ilike left out; withNull: null leaves count
RECURSIVE LeafValues(_, _)
LeafValues(ops, withNull) ==
  IF ops = <<>> THEN <<>>
  ELSE IF toLowerCase(Head(ops).key) \in {"$like", "$ilike"} THEN LeafValues(Tail(ops), withNull)
  ELSE IF Head(ops).val.k = "null" /\ ~withNull THEN LeafValues(Tail(ops), withNull)
  ELSE <<Head(ops).val>> \o LeafValues(Tail(ops), withNull)

HasOperatorObject(filter) == \E i \in 1..Len(filter) : filter[i].val.t = "object"

NormalizedAs(withNull) ==
  /\ Len(proc.once) = Len(proc.filter)
  /\ \A i \in 1..Len(proc.filter) :
       IF proc.filter[i].val.t = "object"
       THEN proc.once[i] =
              Entry(proc.filter[i].key, Array(LeafValues(proc.filter[i].val.ops, withNull)))
       ELSE proc.once[i] = proc.filter[i]
  /\ (~HasOperatorObject(proc.filter) => proc.once = proc.filter)
  /\ proc.twice = proc.once

ConfiguredEntryValid(e) ==
  JoiValidOrArray(Get(Config.validation, e.key), getFilterValues(<<e>>)[1].val)

\* C15: a filter whose keys are configured fields with valid values or keys
\* that are no configured field names (such as a top-level $or holding
\* filter objects, or a JSON-path key field->>subfield) raises no validation
\* error.
C15_UnknownFilterKeysAccepted ==
  (/\ proc.done
   /\ proc.filter # <<>>
   /\ \A i \in 1..Len(proc.filter) :
        Has(Config.validation, proc.filter[i].key) => ConfiguredEntryValid(proc.filter[i]))
    => proc.error = NoError

(***************************************************************************)
(* rest-api.js: the constructor of HAPIRestAPI                             *)
(***************************************************************************)
\* config.validation as the caller gives it: absent, null, or an object of
\* rules (which may have no key)
ValidationAbsent == [given |-> "absent", schema |-> <<>>]
ValidationNull == [given |-> "null", schema |-> <<>>]
ValidationObject(schema) == [given |-> "object", schema |-> schema]

\* !config.validation: undefined and null are falsy, every object is truthy
TruthyValidation(validation) == validation.given = "object"

\* a key of the defaults that the caller may or may not give
Given(option, default) == IF option = "absent" THEN default ELSE option = "true"

\* Object.assign(defaults, config), handed to super and kept as this.config
configWithDefaults(config) ==
  [Config EXCEPT !.validation = config.validation.schema,
                 !.primaryKeyAuto = Given(config.primaryKeyAuto, FALSE),
                 !.primaryKeyGuid = Given(config.primaryKeyGuid, TRUE),
                 !.pagination = IF config.pagination = "absent"
                                THEN PObj(Num(1), Num(DEFAULT_PER_PAGE), FALSE)
                                ELSE PObj(Num(1), Num(2), FALSE)]

\* new HAPIRestAPI(config): [threw, error, config]
constructor(config) ==
  IF ~TruthyValidation(config.validation)
  THEN [threw |-> TRUE, error |-> ConfigError("Validation missing from API config"),
        config |-> configWithDefaults(config)]
  ELSE [threw |-> FALSE, error |-> NoError, config |-> configWithDefaults(config)]

ConfigInputs ==
  [validation : {ValidationAbsent, ValidationNull, ValidationObject(<<>>),
                 ValidationObject(<<Entry("ip", "string")>>),
                 ValidationObject(SessionsValidation)},
   primaryKeyAuto : {"absent", "true", "false"},
   primaryKeyGuid : {"absent", "true", "false"},
   pagination : {"absent", "given"}]

BindingRequests ==
  { Request("get", Undef, Absent(<<>>), Absent(<<>>), Absent(NoPagination), NoColumns, <<>>),
    Request("get", Undef, Json(<<Entry("ip", Scalar(Num(123)))>>), Absent(<<>>),
            Absent(NoPagination), NoColumns, <<>>),
    Request("post", Undef, Absent(<<>>), Absent(<<>>), Absent(NoPagination), NoColumns,
            <<Entry("ip", Str("a"))>>),
    Request("delete", Undef, Absent(<<>>), Absent(<<>>), Absent(NoPagination), NoColumns,
            <<>>) }

\* the number of requests a binding processes
MaxHandled == 2

InitCfg ==
  /\ table = <<>>
  /\ last = "none"
  /\ err = "none"
  /\ qb = "none"
  /\ proc \in [phase : {"startup"}, input : ConfigInputs, config : {Config},
                error : {NoError}, handled : {0}]

\* startup: the binding is constructed
Construct ==
  /\ proc.phase = "startup"
  /\ LET made == constructor(proc.input)
     IN proc' = [proc EXCEPT !.phase = IF made.threw THEN "threw" ELSE "bound",
                             !.error = made.error,
                             !.config = made.config]
  /\ UNCHANGED <<table, last, err, qb>>

\* a request is processed by the Request instance of the binding
BoundProcessRequest ==
  /\ proc.phase = "bound"
  /\ proc.handled < MaxHandled
  /\ \E request \in BindingRequests :
       proc' = [proc EXCEPT !.handled = @ + 1,
                            !.error = processRequest(proc.config, request).error]
  /\ UNCHANGED <<table, last, err, qb>>

NextCfg == Construct \/ BoundProcessRequest

SpecCfg == InitCfg /\ [][NextCfg]_vars

\* the configuration has no field schema: validation absent or empty
NoFieldSchema(config) == config.validation.schema = <<>>

\* C20: constructing a binding whose configuration has no field schema
\* (validation absent or empty) throws a ConfigError at construction, and no
\* ConfigError arises while a request is handled.
C20_NoSchemaThrowsAtConstruction ==
  /\ (proc.phase # "startup" /\ NoFieldSchema(proc.input))
       => (proc.phase = "threw" /\ proc.error.name = "ConfigError")
  /\ proc.handled > 0 => proc.error.name # "ConfigError"

(***************************************************************************)
(* helpers.js: getPaginationResponse; controller.js: the handlers          *)
(***************************************************************************)
getPaginationResponse(pagination, filter, tbl, down) ==
  LET result == dbQuery(Repository_findRowCount(filter), tbl, down)
      totalRows == ParseCount(result.totalrowcount)
  IN IF result.error # NoError THEN [error |-> result.error, info |-> NoPaginationInfo]
     ELSE [error |-> NoError,
           info |-> PaginationInfo(pagination, totalRows,
                                   PageCount(totalRows, pagination.perPage))]

findOne(request, tbl, down) ==
  LET out == getRequestData(Config, request)
      c == out.command
      error == validateFilter(c.filter, Config, FALSE)
      stmt == Repository_find(c.filter, <<>>, NoPagination, c.columns)
      result == dbQuery(stmt, tbl, down)
  IN IF out.threw THEN Outcome(Escaped(out.error), tbl, <<>>, FALSE)
     ELSE IF error # NoError
          THEN Outcome(errorReply(ValidationError(ErrorToString(error))), tbl, <<>>, TRUE)
     ELSE IF result.error # NoError THEN Outcome(errorReply(result.error), tbl, <<stmt>>, TRUE)
     ELSE IF Len(result.rows) # 1
          THEN Outcome(errorReply(NotFoundError("")), tbl, <<stmt>>, TRUE)
     ELSE Outcome(Response(200, DataRow(result.rows[1]), -1, NoPaginationInfo),
                  tbl, <<stmt>>, TRUE)

findMany(request, tbl, down) ==
  LET out == getRequestData(Config, request)
      c == out.command
      error == validateFilter(c.filter, Config, FALSE)
      stmt == Repository_find(c.filter, c.sort, c.pagination, c.columns)
      result == dbQuery(stmt, tbl, down)
      p == getPaginationResponse(c.pagination, c.filter, tbl, down)
  IN IF out.threw THEN Outcome(Escaped(out.error), tbl, <<>>, FALSE)
     ELSE IF error # NoError THEN Outcome(errorReply(error), tbl, <<>>, TRUE)
     ELSE IF result.error # NoError THEN Outcome(errorReply(result.error), tbl, <<stmt>>, TRUE)
     ELSE IF p.error # NoError
          THEN Outcome(errorReply(p.error), tbl,
                       <<stmt, Repository_findRowCount(c.filter)>>, TRUE)
     ELSE Outcome(Response(200, DataRows(result.rows), -1, p.info), tbl,
                  <<stmt, Repository_findRowCount(c.filter)>>, TRUE)

\* data = isArray(data) ? data : [data]; each row takes its own uuidV4() and
\* the timestamp; repo.create(data, columns) gets the array, whose
\* Object.keys are its indices: the INSERT names the columns 0, 1, ...
createPayload(out, payload, tbl, down, uuids) ==
  LET c == out.command
      validation == validateCreatePayload(payload, Config)
      error == validation.error
      data == validation.value.rows
      withKey(i) == IF ~Config.primaryKeyAuto /\ Config.primaryKeyGuid
                    THEN Put(data[i], Config.primaryKey, Str(uuids[i]))
                    ELSE data[i]
      rows == [i \in 1..Len(data) |-> Put(withKey(i), Config.onCreateTimestamp, Now)]
      stmt == Repository_create([i \in 1..Len(rows) |-> Entry(ToString(i - 1), rows[i])],
                                c.columns)
      result == dbQuery(stmt, tbl, down)
  IN IF out.threw THEN Outcome(Escaped(out.error), tbl, <<>>, FALSE)
     ELSE IF error # NoError
          THEN Outcome(errorReply(ValidationError(ErrorToString(error))), tbl, <<>>, TRUE)
     ELSE IF result.error # NoError THEN Outcome(errorReply(result.error), tbl, <<stmt>>, TRUE)
     ELSE Outcome(Response(201,
                           IF Len(result.rows) = 1 THEN DataRow(result.rows[1])
                           ELSE DataRows(result.rows),
                           -1, NoPaginationInfo),
                  result.table, <<stmt>>, TRUE)

\* create, the payload one object
create(request, tbl, down, uuid) ==
  LET out == getRequestData(Config, request)
  IN createPayload(out, ObjectPayload(out.command.data), tbl, down, <<uuid>>)

\* create, the payload an array of objects
createMany(request, array, tbl, down, uuids) ==
  createPayload(getRequestData(Config, request), ArrayPayload(array), tbl, down, uuids)

updateOne(request, tbl, down) ==
  LET out == getRequestData(Config, request)
      c == out.command
      error == validateFilter(c.filter, Config, FALSE)
      validation == validateUpdatePayload(ObjectPayload(request.payload), Config)
      payloadError == validation.error
      data == Put(validation.value.rows[1], Config.onUpdateTimestamp, Now)
      stmt == Repository_update(c.filter, data)
      result == dbQuery(stmt, tbl, down)
  IN IF out.threw THEN Outcome(Escaped(out.error), tbl, <<>>, FALSE)
     ELSE IF error # NoError
          THEN Outcome(errorReply(ValidationError(ErrorToString(error))), tbl, <<>>, TRUE)
     ELSE IF payloadError # NoError THEN Outcome(errorReply(payloadError), tbl, <<>>, TRUE)
     ELSE IF result.error # NoError THEN Outcome(errorReply(result.error), tbl, <<stmt>>, TRUE)
     ELSE IF result.rowCount # 1
          THEN Outcome(errorReply(NotFoundError("")), result.table, <<stmt>>, TRUE)
     ELSE Outcome(Response(200, DataRow(result.rows[1]), result.rowCount, NoPaginationInfo),
                  result.table, <<stmt>>, TRUE)

updateMany(request, tbl, down) ==
  LET out == getRequestData(Config, request)
      c == out.command
      error == validateFilter(c.filter, Config, TRUE)
      validation == validateUpdatePayload(ObjectPayload(request.payload), Config)
      payloadError == validation.error
      data == Put(validation.value.rows[1], Config.onUpdateTimestamp, Now)
      stmt == Repository_update(c.filter, data)
      result == dbQuery(stmt, tbl, down)
  IN IF out.threw THEN Outcome(Escaped(out.error), tbl, <<>>, FALSE)
     ELSE IF error # NoError THEN Outcome(errorReply(error), tbl, <<>>, TRUE)
     ELSE IF payloadError # NoError THEN Outcome(errorReply(payloadError), tbl, <<>>, TRUE)
     ELSE IF result.error # NoError THEN Outcome(errorReply(result.error), tbl, <<stmt>>, TRUE)
     ELSE Outcome(Response(200, DataRows(result.rows), result.rowCount, NoPaginationInfo),
                  result.table, <<stmt>>, TRUE)

deleteOne(request, tbl, down) ==
  LET out == getRequestData(Config, request)
      c == out.command
      error == validateFilter(c.filter, Config, FALSE)
      stmt == Repository_delete(c.filter)
      result == dbQuery(stmt, tbl, down)
  IN IF out.threw THEN Outcome(Escaped(out.error), tbl, <<>>, FALSE)
     ELSE IF error # NoError THEN Outcome(errorReply(error), tbl, <<>>, TRUE)
     ELSE IF result.error # NoError THEN Outcome(errorReply(result.error), tbl, <<stmt>>, TRUE)
     ELSE IF result.rowCount = 0
          THEN Outcome(errorReply(NotFoundError("")), result.table, <<stmt>>, TRUE)
     ELSE Outcome(Response(200, DataNull, result.rowCount, NoPaginationInfo),
                  result.table, <<stmt>>, TRUE)

deleteMany(request, tbl, down) ==
  LET out == getRequestData(Config, request)
      c == out.command
      error == validateFilter(c.filter, Config, TRUE)
      stmt == Repository_delete(c.filter)
      result == dbQuery(stmt, tbl, down)
  IN IF out.threw THEN Outcome(Escaped(out.error), tbl, <<>>, FALSE)
     ELSE IF error # NoError THEN Outcome(errorReply(error), tbl, <<>>, TRUE)
     ELSE IF result.error # NoError THEN Outcome(errorReply(result.error), tbl, <<stmt>>, TRUE)
     ELSE Outcome(Response(200, DataNull, result.rowCount, NoPaginationInfo),
                  result.table, <<stmt>>, TRUE)

\* replaceOne: errorReply(new NotImplementedError(), h)
replaceOne(request, tbl) == Outcome(errorReply(NotImplementedError("")), tbl, <<>>, FALSE)

(***************************************************************************)
(* The REST endpoints of the entity over one table.  Each action is one    *)
(* handled request; last records it.                                       *)
(***************************************************************************)
InitTable ==
  << Row(Str("g1"), Str("a"), Str("t0"), Null),
     Row(Str("g2"), Str("b"), Str("t0"), Null) >>

Ids == {Str("g1"), Str("g3"), Str("bad")}

FlatFilters ==
  { <<>>,
    <<Entry("ip", Scalar(Str("a")))>>,
    <<Entry("session_id", Scalar(Str("g2"))), Entry("ip", Scalar(Str("b")))>>,
    <<Entry("date_updated", Scalar(Null))>>,
    <<Entry("session_id", Scalar(Str("bad")))>>,
    <<Entry("unknown", Scalar(Str("x")))>> }

FilterTexts == {Absent(<<>>), Malformed(<<>>)} \cup {Json(f) : f \in FlatFilters}

SortTexts ==
  {Absent(<<>>), Malformed(<<>>)} \cup
    {Json(o) : o \in { <<Entry("ip", Num(1))>>,
                       <<Entry("session_id", Num(-1))>>,
                       <<Entry("nonexistent_field", Num(1))>>,
                       <<Entry("constructor", Num(1))>> }}

PaginationTexts ==
  {Absent(NoPagination), Malformed(NoPagination)} \cup
    {Json(p) : p \in { PObj(Num(1), Num(2), FALSE), PObj(Num(2), Num(2), FALSE),
                       PObj(Num(3), Num(2), FALSE), PObj(Num(0), Num(2), FALSE) }}

Payloads ==
  { <<>>,
    <<Entry("ip", Str("b"))>>,
    <<Entry("ip", Num(123))>>,
    <<Entry("session_id", Str("g1")), Entry("ip", Str("a"))>>,
    <<Entry("ip", Str("a")), Entry("email", Str("  BOB@EXAMPLE.COM   "))>> }

\* uuidV4(): a key no row has
FreshGuids(tbl) == Guids \ {tbl[i].session_id.s : i \in 1..Len(tbl)}

\* array payloads of a multi-row create: rows with the same keys, rows with
\* different keys, and rows with different keys one of which is invalid
CreateArrays ==
  { << <<Entry("ip", Str("a"))>>, <<Entry("ip", Str("b"))>> >>,
    << <<Entry("ip", Str("a"))>>, <<Entry("ip", Str("b")), Entry("email", Str("bob@example.com"))>> >>,
    << <<Entry("ip", Str("a")), Entry("email", Str("bob@example.com"))>>, <<Entry("ip", Num(123))>> >> }

\* list requests: every filter with every pagination, and every sort
FindManyRequests ==
  { Request("get", Undef, f, Absent(<<>>), p, NoColumns, <<>>) :
      f \in FilterTexts, p \in PaginationTexts }
  \cup { Request("get", Undef, f, s, Absent(NoPagination), NoColumns, <<>>) :
           f \in {Absent(<<>>), Json(<<Entry("ip", Scalar(Str("a")))>>)}, s \in SortTexts }

\* the number of requests a behaviour handles
MaxRequests == 2

Handled(gen, op, request, down, outcome) ==
  [n |-> last.n + 1, gen |-> gen, op |-> op, request |-> request, down |-> down, reply |-> outcome.reply,
   sent |-> outcome.sent, preQuery |-> outcome.preQuery, before |-> table, array |-> <<>>]

NoRequest == Request("", Undef, Absent(<<>>), Absent(<<>>), Absent(NoPagination), NoColumns, <<>>)

Init ==
  /\ table = InitTable
  /\ last = [n |-> 0, gen |-> "", op |-> "", request |-> NoRequest, down |-> FALSE,
             reply |-> NoReply, sent |-> <<>>, preQuery |-> FALSE, before |-> <<>>, array |-> <<>>]
  /\ err = "none"
  /\ proc = "none"
  /\ qb = "none"

Handle(gen, op, request, down, outcome) ==
  /\ last.n < MaxRequests
  /\ last' = Handled(gen, op, request, down, outcome)
  /\ table' = outcome.table
  /\ UNCHANGED <<err, proc, qb>>

\* a request whose payload is an array of objects
HandleArray(gen, op, request, array, down, outcome) ==
  /\ last.n < MaxRequests
  /\ last' = [Handled(gen, op, request, down, outcome) EXCEPT !.array = array]
  /\ table' = outcome.table
  /\ UNCHANGED <<err, proc, qb>>

ApiFindOne ==
  \E id \in Ids, f \in {Absent(<<>>), Json(<<Entry("ip", Scalar(Str("a")))>>)}, down \in BOOLEAN :
    LET request == Request("get", id, f, Absent(<<>>), Absent(NoPagination), NoColumns, <<>>)
    IN Handle("api", "findOne", request, down, HAPIRestAPI_find(request, FALSE, table, down))

ApiFindMany ==
  \E request \in FindManyRequests, down \in BOOLEAN :
    Handle("api", "findMany", request, down, HAPIRestAPI_find(request, TRUE, table, down))

ApiCreate ==
  /\ Len(table) < MaxRows
  /\ \E payload \in Payloads, down \in BOOLEAN, uuid \in FreshGuids(table) :
       LET request == Request("post", Undef, Absent(<<>>), Absent(<<>>), Absent(NoPagination),
                              NoColumns, payload)
       IN Handle("api", "create", request, down, HAPIRestAPI_create(request, table, down, uuid))

ApiUpdateOne ==
  \E id \in Ids, payload \in Payloads, down \in BOOLEAN :
    LET request == Request("patch", id, Absent(<<>>), Absent(<<>>), Absent(NoPagination),
                           NoColumns, payload)
    IN Handle("api", "updateOne", request, down, HAPIRestAPI_update(request, FALSE, table, down))

ApiUpdateMany ==
  \E f \in FilterTexts, payload \in Payloads, down \in BOOLEAN :
    LET request == Request("patch", Undef, f, Absent(<<>>), Absent(NoPagination),
                           NoColumns, payload)
    IN Handle("api", "updateMany", request, down, HAPIRestAPI_update(request, TRUE, table, down))

ApiDelete ==
  \E id \in Ids \cup {Undef}, f \in FilterTexts, down \in BOOLEAN :
    LET request == Request("delete", id, f, Absent(<<>>), Absent(NoPagination), NoColumns, <<>>)
    IN Handle("api", IF id = Undef THEN "deleteMany" ELSE "deleteOne", request, down,
              HAPIRestAPI_delete(request, table, down))

ApiReplaceOne ==
  \E id \in Ids, payload \in Payloads, down \in BOOLEAN :
    LET request == Request("put", id, Absent(<<>>), Absent(<<>>), Absent(NoPagination),
                           NoColumns, payload)
    IN Handle("api", "replaceOne", request, down, replaceOneRoute(request, table))

CtlFindOne ==
  \E id \in Ids, f \in {Absent(<<>>), Json(<<Entry("ip", Scalar(Str("a")))>>)}, down \in BOOLEAN :
    LET request == Request("get", id, f, Absent(<<>>), Absent(NoPagination), NoColumns, <<>>)
    IN Handle("ctl", "findOne", request, down, findOne(request, table, down))

CtlFindMany ==
  \E request \in FindManyRequests, down \in BOOLEAN :
    Handle("ctl", "findMany", request, down, findMany(request, table, down))

CtlCreate ==
  /\ Len(table) < MaxRows
  /\ \E payload \in Payloads, down \in BOOLEAN, uuid \in FreshGuids(table) :
       LET request == Request("post", Undef, Absent(<<>>), Absent(<<>>), Absent(NoPagination),
                              NoColumns, payload)
       IN Handle("ctl", "create", request, down, create(request, table, down, uuid))

CtlCreateMany ==
  /\ Len(table) < MaxRows
  /\ \E rows \in CreateArrays, down \in BOOLEAN, u1, u2 \in FreshGuids(table) :
       /\ u1 # u2
       /\ LET request == Request("post", Undef, Absent(<<>>), Absent(<<>>), Absent(NoPagination),
                                 NoColumns, <<>>)
          IN HandleArray("ctl", "createMany", request, rows, down,
                         createMany(request, rows, table, down, <<u1, u2>>))

CtlUpdateOne ==
  \E id \in Ids, payload \in Payloads, down \in BOOLEAN :
    LET request == Request("patch", id, Absent(<<>>), Absent(<<>>), Absent(NoPagination),
                           NoColumns, payload)
    IN Handle("ctl", "updateOne", request, down, updateOne(request, table, down))

CtlUpdateMany ==
  \E f \in FilterTexts, payload \in Payloads, down \in BOOLEAN :
    LET request == Request("patch", Undef, f, Absent(<<>>), Absent(NoPagination),
                           NoColumns, payload)
    IN Handle("ctl", "updateMany", request, down, updateMany(request, table, down))

CtlReplaceOne ==
  \E id \in Ids, payload \in Payloads, down \in BOOLEAN :
    LET request == Request("put", id, Absent(<<>>), Absent(<<>>), Absent(NoPagination),
                           NoColumns, payload)
    IN Handle("ctl", "replaceOne", request, down, replaceOne(request, table))

CtlDeleteOne ==
  \E id \in Ids, down \in BOOLEAN :
    LET request == Request("delete", id, Absent(<<>>), Absent(<<>>), Absent(NoPagination),
                           NoColumns, <<>>)
    IN Handle("ctl", "deleteOne", request, down, deleteOne(request, table, down))

CtlDeleteMany ==
  \E f \in FilterTexts, down \in BOOLEAN :
    LET request == Request("delete", Undef, f, Absent(<<>>), Absent(NoPagination),
                           NoColumns, <<>>)
    IN Handle("ctl", "deleteMany", request, down, deleteMany(request, table, down))

Next ==
  \/ ApiFindOne \/ ApiFindMany \/ ApiCreate \/ ApiUpdateOne \/ ApiUpdateMany \/ ApiReplaceOne
  \/ ApiDelete
  \/ CtlFindOne \/ CtlFindMany \/ CtlCreate \/ CtlCreateMany \/ CtlUpdateOne \/ CtlUpdateMany
  \/ CtlReplaceOne \/ CtlDeleteOne \/ CtlDeleteMany

Spec == Init /\ [][Next]_vars

\* the filter object a request gives in its query string
GivenFilter(request) == IF request.filter.text = "json" THEN request.filter.json ELSE <<>>

SentTypes == {last.sent[i].type : i \in 1..Len(last.sent)}

\* C1: a bulk update or bulk delete whose resulting filter is empty is
\* rejected with a ValidationError (status 400), no UPDATE or DELETE is sent
\* to the database and no row is changed.
C1_EmptyFilterRejected ==
  (/\ last.op \in {"updateMany", "deleteMany"}
   /\ last.request.filter.text \in {"absent", "json"}
   /\ GivenFilter(last.request) = <<>>)
    => /\ ~last.reply.escaped
       /\ last.reply.status = 400
       /\ last.reply.error.name = "ValidationError"
       /\ SentTypes \cap {"update", "delete"} = {}
       /\ table = last.before

\* C2: every failure while handling a find, create, update or delete
\* request ends in a response with the {error, data: null} envelope and a
\* status code; no exception escapes the handler.
C2_NoExceptionEscapes ==
  last.n > 0 =>
    /\ ~last.reply.escaped
    /\ last.reply.status \in {200, 201, 400, 404, 500, 501}
    /\ (last.reply.error # NoError => last.reply.data = DataNull)

\* filters every row of the table can be tested against
GoodFilterTexts ==
  { Absent(<<>>), Json(<<>>), Json(<<Entry("ip", Scalar(Str("a")))>>),
    Json(<<Entry("session_id", Scalar(Str("g2"))), Entry("ip", Scalar(Str("b")))>>),
    Json(<<Entry("date_updated", Scalar(Null))>>) }

IsPage(p) == p.t = "obj" /\ ~p.extra /\ IsPositiveInteger(p.page) /\ IsPositiveInteger(p.perPage)

\* a list request with a usable filter, pagination {page, perPage} and no
\* sort, handled while the database answers
PagedList ==
  /\ last.op = "findMany"
  /\ ~last.down
  /\ last.request.filter \in GoodFilterTexts
  /\ last.request.sort.text = "absent"
  /\ last.request.pagination.text = "json"
  /\ IsPage(last.request.pagination.json)

\* C8: a list request with pagination {page: p, perPage: n} returns at most
\* n rows and pagination metadata with totalRows = the number of rows that
\* match the filter and pageCount = ceil(totalRows / n); a page beyond
\* pageCount returns zero rows and no error.
C8_PaginationMetadata ==
  PagedList =>
    LET p == last.request.pagination.json.page.n
        n == last.request.pagination.json.perPage.n
        total == Cardinality({i \in 1..Len(table) : Satisfies(table[i], GivenFilter(last.request))})
        info == last.reply.pagination
    IN /\ ~last.reply.escaped
       /\ last.reply.status = 200
       /\ last.reply.error = NoError
       /\ last.reply.data.kind = "rows"
       /\ Len(last.reply.data.rows) <= n
       /\ info.given
       /\ info.totalRows = total
       /\ info.pageCount * n >= total
       /\ (info.pageCount - 1) * n < total
       /\ (p > info.pageCount => last.reply.data.rows = <<>>)

C8_Witness ==
  /\ PagedList
  /\ last.request.pagination.json = PObj(Num(3), Num(2), FALSE)
  /\ last.request.filter.text = "absent"
  /\ Len(table) = 3
  /\ last.reply.status = 200
  /\ last.reply.pagination.totalRows = 3
  /\ last.reply.pagination.pageCount = 2
  /\ last.reply.data.rows = <<>>

\* C10: a request whose sort object has a key that is not a field name of
\* the field schema is rejected with a ValidationError whose message names
\* that key, and no query is executed.
C10_UnknownSortRejected ==
  (/\ last.n > 0
   /\ last.request.sort.text = "json"
   /\ \E i \in 1..Len(last.request.sort.json) :
        ~Has(Config.validation, last.request.sort.json[i].key))
    => LET sort == last.request.sort.json
           i == CHOOSE j \in 1..Len(sort) :
                  /\ ~Has(Config.validation, sort[j].key)
                  /\ \A k \in 1..(j - 1) : Has(Config.validation, sort[k].key)
       IN /\ ~last.reply.escaped
          /\ last.reply.status = 400
          /\ last.reply.error.name = "ValidationError"
          /\ last.reply.error.message = ErrorToString(ValidationError(SortMessage(sort[i].key)))
          /\ last.sent = <<>>

\* the statement that writes the payload of the last request
WriteStatement == last.sent[Len(last.sent)]

\* a create or an update that answered success
Written ==
  /\ last.op \in {"create", "updateOne", "updateMany"}
  /\ ~last.reply.escaped
  /\ last.reply.status \in {200, 201}
  /\ last.reply.error = NoError

\* C12: on create and on update the field values written to the database are
\* the validator's transformed output (a value under the lowercase and trim
\* rule is stored lower-cased and trimmed), not the raw payload values.
C12_TransformedValuesWritten ==
  Written =>
    \A i \in 1..Len(last.request.payload) :
      LET e == last.request.payload[i]
          stmt == WriteStatement
      IN \E j \in 1..Len(stmt.assign) :
           /\ stmt.assign[j].field = e.key
           /\ stmt.params[stmt.assign[j].bind] = JoiConvert(Get(Config.validation, e.key), e.val)

\* C13: a create whose payload is an array in which two elements have
\* different sets of keys is rejected with a ValidationError (status 400),
\* no INSERT is sent and no row is inserted.
C13_DifferentKeysRejected ==
  (last.op = "createMany" /\ ~checkIdenticalKeys(last.array))
    => /\ ~last.reply.escaped
       /\ last.reply.status = 400
       /\ last.reply.error.name = "ValidationError"
       /\ last.sent = <<>>
       /\ table = last.before
\* the filter of a single-record request: the given filter and the path id
SingleRecordFilter(request) ==
  GivenFilter(request) \o <<Entry(Config.primaryKey, Scalar(request.id))>>

\* a get-one, update-one or delete-one sent its statement to a database
\* that is up, its filter names columns of the table and no stored row
\* satisfied it
MatchedNoRow ==
  /\ last.op \in {"findOne", "updateOne", "deleteOne"}
  /\ last.sent # <<>>
  /\ ~last.down
  /\ KeySet(SingleRecordFilter(last.request)) \subseteq Columns
  /\ \A i \in 1..Len(last.before) :
       ~Satisfies(last.before[i], SingleRecordFilter(last.request))

\* C16: a get-one, update-one or delete-one whose query matches zero rows
\* answers status 404 with error.name 'NotFoundError' and data null.
C16_NoRowAnswers404 ==
  MatchedNoRow
    => /\ ~last.reply.escaped
       /\ last.reply.status = 404
       /\ last.reply.error.name = "NotFoundError"
       /\ last.reply.data = DataNull

\* an update-many with a non-empty filter sent its statement to a database
\* that is up, its filter names columns of the table and no stored row
\* satisfied it
UpdateManyMatchedNoRow ==
  /\ last.op = "updateMany"
  /\ GivenFilter(last.request) # <<>>
  /\ last.sent # <<>>
  /\ ~last.down
  /\ KeySet(GivenFilter(last.request)) \subseteq Columns
  /\ \A i \in 1..Len(last.before) : ~Satisfies(last.before[i], GivenFilter(last.request))

\* C17: an update-many with a non-empty filter that matches no row answers
\* success (status 200, error null) with rowCount 0, whereas an update-one
\* that matches no row answers 404.
C17_BulkUpdateOfNoRowSucceeds ==
  /\ UpdateManyMatchedNoRow
       => /\ ~last.reply.escaped
          /\ last.reply.status = 200
          /\ last.reply.error = NoError
          /\ last.reply.rowCount = 0
          /\ table = last.before
  /\ (MatchedNoRow /\ last.op = "updateOne")
       => /\ ~last.reply.escaped
          /\ last.reply.status = 404

\* C18: a PUT to E/{id} always answers status 501 with error.name
\* 'NotImplementedError' and data null, and sends no statement to the
\* database.
C18_PutAnswers501 ==
  last.op = "replaceOne"
    => /\ ~last.reply.escaped
       /\ last.reply.status = 501
       /\ last.reply.error.name = "NotImplementedError"
       /\ last.reply.data = DataNull
       /\ last.sent = <<>>
       /\ table = last.before

\* a step from a successful create to a get-one, without filter and with the
\* database up, on the primary key of the row the create returned
CreatedThenFetched ==
  /\ last.op = "create"
  /\ ~last.reply.escaped
  /\ last.reply.status = 201
  /\ last'.op = "findOne"
  /\ ~last'.down
  /\ last'.request.filter.text = "absent"
  /\ last'.request.id = last.reply.data.rows[1][Config.primaryKey]

RejectedByValidation ==
  /\ last.n > 0
  /\ \/ /\ last.gen = "ctl"
        /\ ~last.reply.escaped
        /\ last.reply.error.name = "ValidationError"
     \/ /\ last.gen = "api"
        /\ last.op # "replaceOne"
        /\ processRequest(Config, last.request).threw

\* C26: the steps of a handled request happen in the order parse, validate,
\* preQuery hook, SQL build, database execution, response: the database is
\* reached only after the preQuery hook ran, and neither the hook nor the
\* database is invoked for a request that validation rejects.
C26_StepsInOrder ==
  /\ (last.n > 0 /\ last.sent # <<>> => last.preQuery)
  /\ (RejectedByValidation =>
        /\ ~last.preQuery
        /\ last.sent = <<>>
        /\ table = last.before)

(***************************************************************************)
(* Inserts under an upsert policy: Repository.create and the builder's     *)
(* insert, with config.upsert null or {fields, set}.                       *)
(***************************************************************************)
Upserts ==
  { NoConflict,
    OnConflict(<<"session_id">>, <<"ip">>),
    OnConflict(<<"session_id">>, <<"email", "date_updated">>),
    OnConflict(<<"session_id">>, <<>>),
    OnConflict(<<"ip">>, <<"email">>) }

UpsertData ==
  { <<>>,
    <<Entry("session_id", Str("g1")), Entry("ip", Str("b")), Entry("date_created", Str("now"))>>,
    <<Entry("session_id", Str("g2")), Entry("ip", Str("a")), Entry("date_created", Str("now")),
      Entry("email", Str("bob@example.com"))>>,
    <<Entry("session_id", Str("g2")), Entry("email", Str("bob@example.com"))>>,
    <<Entry("ip", Str("b")), Entry("session_id", Str("g3")), Entry("date_created", Str("t0")),
      Entry("date_updated", Str("now"))>>,
    <<Entry("session_id", Str("g4")), Entry("ip", Str("a")), Entry("date_created", Str("now"))>> }

InitUpsert ==
  /\ table \in QbTables
  /\ last = "none"
  /\ err = "none"
  /\ proc = "none"
  /\ qb \in [via : {"none"}, upsert : Upserts, data : UpsertData, stmt : {NoStatement},
             result : {NoResult}, before : {<<>>}, done : {FALSE}]

\* repo.create(data): the statement and its execution
UpsertRepositoryCreate ==
  /\ ~qb.done
  /\ LET stmt == Repository_createUpsert(qb.upsert, qb.data, NoColumns)
         result == dbQuery(stmt, table, FALSE)
     IN /\ qb' = [qb EXCEPT !.via = "repository", !.done = TRUE, !.stmt = stmt,
                            !.result = result, !.before = table]
        /\ table' = result.table
  /\ UNCHANGED <<last, err, proc>>

\* new SQLQueryBuilder(config).insert().setData(data).getQuery(), executed
UpsertInsertQuery ==
  /\ ~qb.done
  /\ LET stmt == insertQueryUpsert(qb.upsert, [NewBuilder EXCEPT !.mode = "insert",
                                                                !.data = qb.data])
         result == dbQuery(stmt, table, FALSE)
     IN /\ qb' = [qb EXCEPT !.via = "builder", !.done = TRUE, !.stmt = stmt,
                            !.result = result, !.before = table]
        /\ table' = result.table
  /\ UNCHANGED <<last, err, proc>>

NextUpsert == UpsertRepositoryCreate \/ UpsertInsertQuery

SpecUpsert == InitUpsert /\ [][NextUpsert]_vars

\* the row an insert of data proposes
IncomingRow(data) ==
  [c \in Columns |-> IF Has(data, c) THEN SqlText(Get(data, c)) ELSE Null]

\* the rows of tbl that hold the incoming row's values of the conflict fields
ConflictingRows(tbl, incoming, fields) ==
  {i \in 1..Len(tbl) : \A k \in 1..Len(fields) : tbl[i][fields[k]] = incoming[fields[k]]}

\* an insert under a policy on a unique index, of a row that the table
\* accepts but whose conflict fields are taken
ConflictingInsert ==
  /\ qb.done
  /\ qb.upsert.given
  /\ qb.upsert.set # <<>>
  /\ SeqToSet(qb.upsert.fields) \in UniqueIndexes
  /\ qb.data # <<>>
  /\ ~ViolatesNotNull(IncomingRow(qb.data))
  /\ ConflictingRows(qb.before, IncomingRow(qb.data), qb.upsert.fields) # {}

\* C28: with an upsert policy configured, an insert that conflicts on the
\* policy's conflict fields sets, in the existing row, only the listed
\* update fields to the incoming row's values; every other column of that
\* row and every other row is unchanged, no second row is created, and the
\* resulting row is returned.
C28_UpsertUpdatesListedFields ==
  ConflictingInsert =>
    LET incoming == IncomingRow(qb.data)
        hit == ConflictingRows(qb.before, incoming, qb.upsert.fields)
    IN /\ qb.result.error = NoError
       /\ Len(table) = Len(qb.before)
       /\ \A i \in 1..Len(table) :
            \A c \in Columns :
              table[i][c] = IF i \in hit /\ c \in SeqToSet(qb.upsert.set)
                            THEN incoming[c]
                            ELSE qb.before[i][c]
       /\ Cardinality(hit) = 1
       /\ qb.result.rows = <<table[CHOOSE i \in hit : TRUE]>>
       /\ qb.result.rowCount = 1

\* g2 exists with ip b and no email; the insert brings ip a and an email,
\* the policy sets email and date_updated only
C28_Witness ==
  /\ ConflictingInsert
  /\ qb.via = "repository"
  /\ qb.upsert = OnConflict(<<"session_id">>, <<"email", "date_updated">>)
  /\ Len(qb.before) = 3
  /\ qb.data[1] = Entry("session_id", Str("g2"))
  /\ Len(qb.data) = 4
  /\ table[2].ip = Str("b")
  /\ table[2].email = Str("bob@example.com")
  /\ table[2].date_updated = Null
  /\ qb.before[2].date_updated = Str("now")

(***************************************************************************)
(* api-client.js: APIClient.findAll.  The client calls findMany, each call *)
(* resolving with a response body of the REST API: {error, data,           *)
(* pagination} on success, {error, data: null} when the API answered with  *)
(* an error.                                                               *)
(***************************************************************************)
MaxPages == 3

\* the error of a response body: null, an error object, or a text
ErrorObject == [k |-> "obj", s |-> "DBError", n |-> 0, half |-> 0]
ResponseErrors == {Null, ErrorObject, Str("Some DB Error")}

\* if (error): an object is truthy
TruthyError(error) == error.k = "obj" \/ Truthy(error)

throwIfError_never(error) == FALSE

\* throwIfError(error) throws when error is truthy
throwIfError(error) == TruthyError(error)

PageData == {<<>>, <<"a", "b">>, <<"c">>, <<"b", "c", "a">>}

\* what findMany resolves with
ResponseBody(error, hasPagination, pageCount, perPage, data) ==
  [error |-> error, hasPagination |-> hasPagination, pageCount |-> pageCount,
   perPage |-> perPage, data |-> data]

\* bodies the API gives to the first call: a success with data and
\* pagination, or an error with data null (and no pagination, unless the
\* caller's stub keeps one)
FirstBodies ==
  {ResponseBody(Null, TRUE, n, pp, <<"a">>) : n \in 0..MaxPages, pp \in {1, 3}}
    \cup {ResponseBody(e, FALSE, 0, 0, <<>>) : e \in ResponseErrors \ {Null}}
    \cup {ResponseBody(e, TRUE, 2, 3, <<>>) : e \in ResponseErrors \ {Null}}

\* bodies the API gives to the call for one page; findAll reads error and
\* data of these only
PageBodies ==
  {ResponseBody(Null, TRUE, 0, 0, d) : d \in PageData}
    \cup {ResponseBody(e, FALSE, 0, 0, <<>>) : e \in ResponseErrors \ {Null}}

\* the pagination argument of a findMany call: null, or {page, perPage}
NullPagination == [given |-> FALSE, page |-> 0, perPage |-> 0]
PageOf(page, perPage) == [given |-> TRUE, page |-> page, perPage |-> perPage]

Call(pagination, response) == [pagination |-> pagination, response |-> response]

InitAll ==
  /\ table = <<>>
  /\ last = "none"
  /\ err = "none"
  /\ qb = "none"
  /\ proc = [pc |-> "first", calls |-> <<>>, pageCount |-> 0, perPage |-> 0, page |-> 0,
             rows |-> <<>>, threw |-> FALSE, returned |-> FALSE]

\* const { error, pagination: { pageCount, perPage } } =
\*   await this.findMany(filter, sort, null, []); throwIfError(error);
\* destructuring a body without pagination throws a TypeError
FindAllFirst ==
  /\ proc.pc = "first"
  /\ \E response \in FirstBodies :
       LET calls == Append(proc.calls, Call(NullPagination, response))
       IN IF ~response.hasPagination \/ throwIfError(response.error)
          THEN proc' = [proc EXCEPT !.pc = "done", !.calls = calls, !.threw = TRUE]
          ELSE proc' = [proc EXCEPT !.pc = "loop", !.calls = calls,
                                    !.pageCount = response.pageCount,
                                    !.perPage = response.perPage, !.page = 1]
  /\ UNCHANGED <<table, last, err, qb>>

\* one turn of for (let page = 1; page <= pageCount; page++)
FindAllPage ==
  /\ proc.pc = "loop"
  /\ proc.page <= proc.pageCount
  /\ \E response \in PageBodies :
       LET calls == Append(proc.calls, Call(PageOf(proc.page, proc.perPage), response))
       IN IF throwIfError(response.error)
          THEN proc' = [proc EXCEPT !.pc = "done", !.calls = calls, !.threw = TRUE]
          ELSE proc' = [proc EXCEPT !.calls = calls, !.page = proc.page + 1,
                                    !.rows = proc.rows \o response.data]
  /\ UNCHANGED <<table, last, err, qb>>

\* return rows
FindAllReturn ==
  /\ proc.pc = "loop"
  /\ proc.page > proc.pageCount
  /\ proc' = [proc EXCEPT !.pc = "done", !.returned = TRUE]
  /\ UNCHANGED <<table, last, err, qb>>

NextAll == FindAllFirst \/ FindAllPage \/ FindAllReturn

SpecAll == InitAll /\ [][NextAll]_vars

RECURSIVE ConcatData(_)
ConcatData(calls) ==
  IF calls = <<>> THEN <<>> ELSE ConcatData(SubSeq(calls, 1, Len(calls) - 1)) \o calls[Len(calls)].response.data

\* C22: findAll makes one findMany call without pagination to learn
\* pageCount and perPage, then asks for pages 1..pageCount in ascending
\* order; it ends after exactly pageCount + 1 calls and returns the pages'
\* data concatenated in page order; as soon as a response carries an error
\* it throws, returns no rows and makes no further call.
C22_FindAllPages ==
  /\ (Len(proc.calls) >= 1 => proc.calls[1].pagination = NullPagination)
  /\ \A i \in 2..Len(proc.calls) :
       proc.calls[i].pagination =
         PageOf(i - 1, proc.calls[1].response.perPage)
  /\ Len(proc.calls) <= proc.pageCount + 1
  /\ (proc.returned =>
        /\ Len(proc.calls) = proc.calls[1].response.pageCount + 1
        /\ proc.rows = ConcatData(SubSeq(proc.calls, 2, Len(proc.calls)))
        /\ ~proc.threw
        /\ \A i \in 1..Len(proc.calls) : proc.calls[i].response.error = Null)
  /\ \A i \in 1..Len(proc.calls) :
       proc.calls[i].response.error # Null
         => /\ proc.threw
            /\ ~proc.returned
            /\ proc.pc = "done"
            /\ i = Len(proc.calls)

C22_Witness ==
  /\ proc.returned
  /\ Len(proc.calls) = 4
  /\ proc.rows = <<"a", "b", "c", "b", "c", "a">>
  /\ proc.calls[3].response.data = <<"c">>

C22_WitnessThrew ==
  /\ proc.threw
  /\ Len(proc.calls) = 3
  /\ proc.calls[3].response.error = ErrorObject

(***************************************************************************)
(* Requests in flight on one binding.  A handler is an async function: the *)
(* synchronous request processing is one step, every await ends a step.   *)
(* Objects are shared by reference: the command of a request that gives no *)
(* pagination holds the configuration's own pagination object.            *)
(***************************************************************************)
MaxInFlight == 2

\* manager.js: this.repository, after manager.create(config) at start-up
EntityName == "sessions"
RepositoryOf(config) == [config |-> config]
Registry == [name \in {EntityName} |-> RepositoryOf(Config)]

\* manager.get(name)
manager_get(registry, name) == registry[name]

InFlightRequests ==
  { Request("get", Undef, Absent(<<>>), Absent(<<>>), Absent(NoPagination), NoColumns, <<>>),
    Request("get", Undef, Json(<<Entry("ip", Scalar(Str("a")))>>),
            Json(<<Entry("ip", Num(1))>>), Json(PObj(Num(2), Num(2), FALSE)),
            NoColumns, <<>>),
    Request("get", Str("g1"), Absent(<<>>), Absent(<<>>), Absent(NoPagination), NoColumns, <<>>),
    Request("get", Undef, Malformed(<<>>), Absent(<<>>), Absent(NoPagination), NoColumns, <<>>),
    Request("patch", Str("g1"), Absent(<<>>), Absent(<<>>), Absent(NoPagination), NoColumns,
            <<Entry("ip", Str("b"))>>) }

\* which object a command's pagination is: the one JSON.parse made for this
\* request, or config.pagination itself
PaginationRef(gen, request) ==
  IF (gen = "api" /\ InQuery(request.pagination))
     \/ (gen = "ctl" /\ TruthyText(request.pagination))
  THEN "own" ELSE "config"

\* the object that receives totalRows and pageCount in getPagination and
\* getPaginationResponse: {...pagination, totalRows, pageCount} is a new
\* object
PaginationInfoTarget_inPlace(ref) == ref
PaginationInfoTarget(ref) == "new"

Received(gen, request) ==
  [pc |-> "received", gen |-> gen, request |-> request, command |-> NoCommand,
   ref |-> "own", used |-> NoCommand, repo |-> RepositoryOf(Config)]

InitInFlight ==
  /\ table = <<>>
  /\ last = "none"
  /\ err = "none"
  /\ qb = "none"
  /\ proc \in [config : {Config}, registry : {Registry},
               slots : [1..MaxInFlight ->
                          {Received(gen, request) :
                             gen \in {"api", "ctl"}, request \in InFlightRequests}]]

\* the command as the handler of slot i reads it now
CommandOf(i) ==
  [proc.slots[i].command EXCEPT
     !.pagination = IF proc.slots[i].ref = "config" THEN proc.config.pagination ELSE @]

\* await this.request.processRequest(hapiRequest)
InFlightProcessRequest(i) ==
  /\ proc.slots[i].pc = "received"
  /\ proc.slots[i].gen = "api"
  /\ LET out == processRequest(proc.config, proc.slots[i].request)
     IN proc' = [proc EXCEPT
                   !.slots[i].pc = IF out.threw THEN "replied" ELSE "parsed",
                   !.slots[i].command = out.command,
                   !.slots[i].ref = IF out.threw THEN "own"
                                    ELSE PaginationRef("api", proc.slots[i].request)]
  /\ UNCHANGED <<table, last, err, qb>>

\* await getRequestData(request, config), after manager.get(config.name)
InFlightGetRequestData(i) ==
  /\ proc.slots[i].pc = "received"
  /\ proc.slots[i].gen = "ctl"
  /\ LET out == getRequestData(proc.config, proc.slots[i].request)
     IN proc' = [proc EXCEPT
                   !.slots[i].pc = IF out.threw THEN "replied" ELSE "parsed",
                   !.slots[i].command = out.command,
                   !.slots[i].repo = manager_get(proc.registry, EntityName),
                   !.slots[i].ref = IF out.threw THEN "own"
                                    ELSE PaginationRef("ctl", proc.slots[i].request)]
  /\ UNCHANGED <<table, last, err, qb>>

\* the handler reads its command and awaits the repository: find for GET;
\* for PATCH the class API first writes the update timestamp into
\* command.data, the payload object of this request
InFlightQuery(i) ==
  /\ proc.slots[i].pc = "parsed"
  /\ proc' = [proc EXCEPT
                !.slots[i].pc = IF proc.slots[i].request.method = "get"
                                   /\ proc.slots[i].request.id = Undef
                                THEN "queried" ELSE "replied",
                !.slots[i].used = CommandOf(i),
                !.slots[i].command.data =
                   IF proc.slots[i].request.method = "patch" /\ proc.slots[i].gen = "api"
                   THEN Put(@, proc.config.onUpdateTimestamp, Now) ELSE @]
  /\ UNCHANGED <<table, last, err, qb>>

\* findMany: the pagination of the reply is built after the row count
InFlightPagination(i) ==
  /\ proc.slots[i].pc = "queried"
  /\ LET target == PaginationInfoTarget(proc.slots[i].ref)
         written == PObj(CommandOf(i).pagination.page, CommandOf(i).pagination.perPage, TRUE)
     IN proc' = [proc EXCEPT
                   !.slots[i].pc = "replied",
                   !.slots[i].command.pagination = IF target = "own" THEN written ELSE @,
                   !.config.pagination = IF target = "config" THEN written ELSE @]
  /\ UNCHANGED <<table, last, err, qb>>

NextInFlight ==
  \E i \in 1..MaxInFlight :
    \/ InFlightProcessRequest(i)
    \/ InFlightGetRequestData(i)
    \/ InFlightQuery(i)
    \/ InFlightPagination(i)

SpecInFlight == InitInFlight /\ [][NextInFlight]_vars

\* what request processing makes of one request by itself
OwnCommand(gen, request) ==
  IF gen = "api" THEN processRequest(Config, request).command
  ELSE getRequestData(Config, request).command

\* the command of a slot, but for the update timestamp the handler wrote
\* into data
ParsedCommand(i) ==
  [CommandOf(i) EXCEPT !.data = proc.slots[i].request.payload]

\* C29: however the steps of concurrently handled requests on one binding
\* interleave, the entity configuration (field schema, default pagination,
\* key policy) and the name-to-repository registry stay as they were at
\* start-up, and the command (filter, sort, pagination, columns, data) of
\* each request is what request processing makes of that request's own path
\* params, query and payload, both when parsed and when the handler uses it.
C29_NoSharedMutableState ==
  /\ proc.config = Config
  /\ proc.registry = Registry
  /\ \A i \in 1..MaxInFlight :
       /\ proc.slots[i].repo = RepositoryOf(Config)
       /\ proc.slots[i].pc = "parsed"
            => CommandOf(i) = OwnCommand(proc.slots[i].gen, proc.slots[i].request)
       /\ proc.slots[i].pc \in {"queried", "replied"} /\ proc.slots[i].used # NoCommand
            => /\ proc.slots[i].used
                    = OwnCommand(proc.slots[i].gen, proc.slots[i].request)
               /\ ParsedCommand(i)
                    = OwnCommand(proc.slots[i].gen, proc.slots[i].request)

\* one findMany has replied with its pagination while another request that
\* gave no pagination is between parsing and querying
C29_Witness ==
  /\ proc.slots[1].pc = "replied"
  /\ proc.slots[1].request.method = "get"
  /\ proc.slots[1].ref = "config"
  /\ proc.slots[1].used.pagination = Config.pagination
  /\ proc.slots[2].pc = "parsed"
  /\ proc.slots[2].ref = "config"
  /\ CommandOf(2).pagination = Config.pagination

(***************************************************************************)
(* Identifiers and values of the statements sent for a request             *)
(***************************************************************************)
\* every placeholder of the statement refers to one of its parameters
PlaceholdersBound(stmt) ==
  /\ \A i \in 1..Len(stmt.where) :
       \A j \in 1..Len(stmt.where[i].binds) :
         stmt.where[i].binds[j] \in 1..Len(stmt.params)
  /\ \A i \in 1..Len(stmt.assign) : stmt.assign[i].bind \in 1..Len(stmt.params)

\* C30: in every statement sent for a request that passed validation, the
\* user-supplied values are bound parameters, and every identifier the
\* statement takes from the request (filter keys, sort keys, projected or
\* returned columns, data keys) is a field name of the entity's field
\* schema.
C30_OnlySchemaIdentifiers ==
  \A i \in 1..Len(last.sent) :
    /\ PlaceholdersBound(last.sent[i])
    /\ StatementFields(last.sent[i]) \subseteq KeySet(Config.validation)

====
